---- MODULE Spec2Model ----
(***************************************************************************)
(* Model of the task assistant's command parsing, task validation and      *)
(* task repository.                                                        *)
(*                                                                         *)
(* A Go string is modelled as a sequence of characters, each character a   *)
(* one-element TLA+ string.  TLA+ string literals are ASCII only, so the   *)
(* four Cyrillic letters of the deadline keyword are written by their      *)
(* code points ("U0441" is CYRILLIC SMALL LETTER ES, "U000B" is VT, ...).    *)
(***************************************************************************)
EXTENDS Integers, Sequences, FiniteSets, TLC

VARIABLES
    dateStr,    \* ParseDate: the argument
    dateSrc,    \* ParseDate: how the argument was produced (a date written in a layout, or raw text)
    dateRes,    \* ParseDate: the (time.Time, error) pair returned, or NotCalled
    text,       \* ParseAddCommand: the argument
    addRes,     \* ParseAddCommand: the (*TaskInput, error) pair returned, a panic, or NotCalled
    splitText,  \* SplitCommandArgs: the argument
    splitRes,   \* SplitCommandArgs: the slice returned, or NotCalled
    task,       \* the Task that is the receiver of Validate and IsOverdue
    validateRes,    \* Task.Validate: the error returned, or NotCalled
    descriptionRes, \* ValidateDescription: the error returned, or NotCalled
    overdueLog, \* Task.IsOverdue: the calls made so far, each with its time and result
    now,        \* time.Now(): the wall clock
    rows,       \* the rows of table tasks, by id
    lastID,     \* sqlite_sequence: the largest id AUTOINCREMENT has assigned
    op,         \* the last repository call: its arguments and what it returned
    item,       \* FormatTaskItem: the TaskInfo and the number passed
    itemRes,    \* FormatTaskItem: the text returned, or NotCalled
    limit,      \* the APILimit of one user
    canRes,     \* the last call on the APILimit: its time and result, or NotCalled
    granted,    \* the requests granted since the last Reset: up to ResetDate and past it
    procs,      \* the repository calls running at the same time, each with its position
    message,    \* handleAdd: the inbound message
    outbox,     \* handleAdd: the replies sent
    addCalls    \* handleAdd: the AddTask calls made, each with its error

\* what the task repository reads and writes
storeVars == <<now, rows, lastID, op>>

formatVars == <<item, itemRes>>

limitVars == <<limit, canRes, granted>>

handlerVars == <<message, outbox, addCalls>>

parserVars == <<dateStr, dateSrc, dateRes, text, addRes, splitText, splitRes>>

taskVars == <<task, validateRes, descriptionRes, overdueLog>>

vars == <<dateStr, dateSrc, dateRes, text, addRes, splitText, splitRes, task, validateRes,
          descriptionRes, overdueLog, now, rows, lastID, op, item, itemRes, limit, canRes,
          granted, procs, message, outbox, addCalls>>

----------------------------------------------------------------------------
(* Characters and strings *)

Range(s) == {s[i] : i \in DOMAIN s}

\* unicode.IsSpace, as used by strings.TrimSpace (Latin-1 space characters)
IsSpace(c) == c \in {"\t", "\n", "U000B", "\f", "\r", " ", "U0085", "U00A0"}

\* index of the first / last character that is not a space (0 when there is none)
FirstNonSpace(s) ==
    IF \A i \in DOMAIN s : IsSpace(s[i]) THEN 0
    ELSE CHOOSE i \in DOMAIN s : ~IsSpace(s[i]) /\ \A j \in 1..(i - 1) : IsSpace(s[j])

LastNonSpace(s) ==
    IF \A i \in DOMAIN s : IsSpace(s[i]) THEN 0
    ELSE CHOOSE i \in DOMAIN s : ~IsSpace(s[i]) /\ \A j \in (i + 1)..Len(s) : IsSpace(s[j])

\* strings.TrimSpace
TrimSpace(s) ==
    IF FirstNonSpace(s) = 0 THEN <<>>
    ELSE SubSeq(s, FirstNonSpace(s), LastNonSpace(s))

\* strings.HasPrefix / strings.HasSuffix
HasPrefix(s, p) == Len(s) >= Len(p) /\ SubSeq(s, 1, Len(p)) = p

HasSuffix(s, p) == Len(s) >= Len(p) /\ SubSeq(s, Len(s) - Len(p) + 1, Len(s)) = p

\* concatenation of a sequence of strings
RECURSIVE Flatten(_)
Flatten(ss) == IF ss = <<>> THEN <<>> ELSE Head(ss) \o Flatten(Tail(ss))

----------------------------------------------------------------------------
(* time.Time values: a civil date and time in time.Local *)

Time(y, m, d, h, mi, s) ==
    [year |-> y, month |-> m, day |-> d, hour |-> h, min |-> mi, sec |-> s, nsec |-> 0]

\* time.Time{}: the zero value
ZeroTime == Time(1, 1, 1, 0, 0, 0)

\* errors: nil, or a value with its kind and, for a date format error, the
\* formats its text lists
NoError == [kind |-> "nil", supported |-> <<>>]

Error(k) == [kind |-> k, supported |-> <<>>]

NotCalled == [called |-> FALSE]

----------------------------------------------------------------------------
(* time.Parse for the layouts ParseDate uses *)

DigitChars == <<"0", "1", "2", "3", "4", "5", "6", "7", "8", "9">>

isDigit(s, i) == i <= Len(s) /\ s[i] \in Range(DigitChars)

DigitVal(c) == (CHOOSE k \in DOMAIN DigitChars : DigitChars[k] = c) - 1

isLeap(year) == year % 4 = 0 /\ (year % 100 # 0 \/ year % 400 = 0)

daysIn(m, year) ==
    IF m = 2 THEN (IF isLeap(year) THEN 29 ELSE 28)
    ELSE IF m \in {4, 6, 9, 11} THEN 30 ELSE 31

\* A layout is the sequence of its elements: "2006" is the four-digit year,
\* "01" the two-digit month, "02" the two-digit day, anything else a literal.
\* ParseElem consumes layout element e at position pos of value and returns
\* the fields read so far, or ok = FALSE.
ParseElem(e, value, pos, st) ==
    IF e = "2006" THEN
        IF pos + 3 <= Len(value) /\ \A k \in pos..(pos + 3) : isDigit(value, k)
        THEN [st EXCEPT !.pos = pos + 4,
                        !.year = DigitVal(value[pos]) * 1000 + DigitVal(value[pos + 1]) * 100
                                 + DigitVal(value[pos + 2]) * 10 + DigitVal(value[pos + 3])]
        ELSE [st EXCEPT !.ok = FALSE]
    ELSE IF e \in {"01", "02"} THEN
        IF isDigit(value, pos) /\ isDigit(value, pos + 1)
        THEN LET n == DigitVal(value[pos]) * 10 + DigitVal(value[pos + 1])
             IN  IF e = "01"
                 THEN [st EXCEPT !.pos = pos + 2, !.month = n, !.ok = (n >= 1 /\ n <= 12)]
                 ELSE [st EXCEPT !.pos = pos + 2, !.day = n]
        ELSE [st EXCEPT !.ok = FALSE]
    ELSE
        IF pos <= Len(value) /\ value[pos] = e
        THEN [st EXCEPT !.pos = pos + 1]
        ELSE [st EXCEPT !.ok = FALSE]

RECURSIVE ParseElems(_, _, _, _)
ParseElems(layout, i, value, st) ==
    IF ~st.ok \/ i > Len(layout) THEN st
    ELSE ParseElems(layout, i + 1, value, ParseElem(layout[i], value, st.pos, st))

\* time.Parse(layout, value): the date read, or ok = FALSE (extra text, a
\* month outside 1..12 and a day outside the month are errors)
TimeParse(layout, value) ==
    LET st == ParseElems(layout, 1, value, [ok |-> TRUE, pos |-> 1, year |-> 0, month |-> 1, day |-> 1])
    IN  [ok    |-> st.ok /\ st.pos = Len(value) + 1
                   /\ st.day >= 1 /\ st.day <= daysIn(st.month, st.year),
         year  |-> st.year,
         month |-> st.month,
         day   |-> st.day]

----------------------------------------------------------------------------
(* ParseDate *)

\* (mutation: the US format tried before the day-first one)
formatsUSFirst == <<
    <<"2006", "-", "01", "-", "02">>,
    <<"02", ".", "01", ".", "2006">>,
    <<"01", "/", "02", "/", "2006">>,
    <<"2006", "/", "01", "/", "02">>,
    <<"02", "-", "01", "-", "2006">>,
    <<"02", "/", "01", "/", "2006">>
>>

\* the list of supported date formats, in the order tried
formats == <<
    <<"2006", "-", "01", "-", "02">>,
    <<"02", ".", "01", ".", "2006">>,
    <<"02", "/", "01", "/", "2006">>,
    <<"2006", "/", "01", "/", "02">>,
    <<"02", "-", "01", "-", "2006">>,
    <<"01", "/", "02", "/", "2006">>
>>

\* the formats the "invalid date format" error text lists
ErrInvalidFormat ==
    [kind      |-> "invalid date format",
     supported |-> << <<"YYYY", "-", "MM", "-", "DD">>,
                      <<"DD", ".", "MM", ".", "YYYY">>,
                      <<"DD", "/", "MM", "/", "YYYY">> >>]

\* the first format, from index i on, that parses s (0 when none does)
RECURSIVE FirstFormat(_, _)
FirstFormat(s, i) ==
    IF i > Len(formats) THEN 0
    ELSE IF TimeParse(formats[i], s).ok THEN i
    ELSE FirstFormat(s, i + 1)

\* (mutation: the parsed date returned as it is, at midnight)
ParseDateMidnight(s) ==
    LET trimmed == TrimSpace(s)
        f       == FirstFormat(trimmed, 1)
        parsed  == TimeParse(formats[f], trimmed)
    IN  IF trimmed = <<>> THEN [value |-> ZeroTime, err |-> Error("empty date string")]
        ELSE IF f = 0 THEN [value |-> ZeroTime, err |-> ErrInvalidFormat]
        ELSE [value |-> Time(parsed.year, parsed.month, parsed.day, 0, 0, 0),
              err   |-> NoError]

ParseDate(s) ==
    LET trimmed == TrimSpace(s)
        f       == FirstFormat(trimmed, 1)
        parsed  == TimeParse(formats[f], trimmed)
    IN  IF trimmed = <<>> THEN [value |-> ZeroTime, err |-> Error("empty date string")]
        ELSE IF f = 0 THEN [value |-> ZeroTime, err |-> ErrInvalidFormat]
        ELSE [value |-> Time(parsed.year, parsed.month, parsed.day, 23, 59, 59),
              err   |-> NoError]

----------------------------------------------------------------------------
(* The deadline clause: regexp `\s+срок:\s*(\S+)` *)

\* \s of Go's regexp syntax: [\t\n\f\r ]
IsRegexpSpace(c) == c \in {"\t", "\n", "\f", "\r", " "}

\* the literal of the pattern: the keyword in Cyrillic letters and a colon
Keyword == <<"U0441", "U0440", "U043E", "U043A", ":">>

\* the end of the run of \s (of \S when space = FALSE) that starts at i: the
\* first position from i on that is past the end or of the other class
RunEnd(s, i, space) ==
    CHOOSE j \in i..(Len(s) + 1) :
        /\ j = Len(s) + 1 \/ IsRegexpSpace(s[j]) # space
        /\ \A k \in i..(j - 1) : IsRegexpSpace(s[k]) = space

\* The match of the pattern that starts at position i, if there is one.  The
\* quantifiers are greedy and never give anything back here: the keyword
\* cannot start with a \s character and the token cannot start with one.
MatchAt(s, i) ==
    LET kw  == RunEnd(s, i, TRUE)
        tok == RunEnd(s, kw + Len(Keyword), TRUE)
        end == RunEnd(s, tok, FALSE)
    IN  IF /\ i <= Len(s) /\ IsRegexpSpace(s[i])
           /\ kw + Len(Keyword) - 1 <= Len(s)
           /\ SubSeq(s, kw, kw + Len(Keyword) - 1) = Keyword
           /\ tok <= Len(s)
        THEN [ok |-> TRUE, start |-> i, end |-> end, group |-> SubSeq(s, tok, end - 1)]
        ELSE [ok |-> FALSE, start |-> 0, end |-> 0, group |-> <<>>]

\* the leftmost match that starts at position from or later
FindFrom(s, from) ==
    IF \E i \in from..Len(s) : MatchAt(s, i).ok
    THEN MatchAt(s, CHOOSE i \in from..Len(s) :
                        MatchAt(s, i).ok /\ \A j \in from..(i - 1) : ~MatchAt(s, j).ok)
    ELSE [ok |-> FALSE, start |-> 0, end |-> 0, group |-> <<>>]

\* deadlineRegex.FindStringSubmatch(s): the leftmost match and its group
FindStringSubmatch(s) == FindFrom(s, 1)

\* deadlineRegex.ReplaceAllString(s, ""): every match, left to right and not
\* overlapping, is cut out
RECURSIVE ReplaceFrom(_, _)
ReplaceFrom(s, from) ==
    LET m == FindFrom(s, from)
    IN  IF ~m.ok THEN SubSeq(s, from, Len(s))
        ELSE SubSeq(s, from, m.start - 1) \o ReplaceFrom(s, m.end)

\* (mutation: only the first match is cut out)
ReplaceFirstString(s) ==
    LET m == FindFrom(s, 1)
    IN  IF ~m.ok THEN s
        ELSE SubSeq(s, 1, m.start - 1) \o SubSeq(s, m.end, Len(s))

ReplaceAllString(s) == ReplaceFrom(s, 1)

----------------------------------------------------------------------------
(* ParseAddCommand *)

\* the nil *TaskInput, and a TaskInput
NilInput == [nil |-> TRUE, Description |-> <<>>, Deadline |-> ZeroTime, HasDeadline |-> FALSE]

TaskInput(description, deadline, hasDeadline) ==
    [nil |-> FALSE, Description |-> description, Deadline |-> deadline,
     HasDeadline |-> hasDeadline]

\* how a call ended: it returned (input, err), or it panicked
Returned(input, e) == [called |-> TRUE, panicked |-> FALSE, input |-> input, err |-> e]

Panicked == [called |-> TRUE, panicked |-> TRUE, input |-> NilInput, err |-> NoError]

AddCmd == <<"/", "a", "d", "d">>

\* whether the slice expression s[lo:hi] is in range (it panics otherwise)
SliceInRange(s, lo, hi) == 0 <= lo /\ lo <= hi /\ hi <= Len(s)

\* s[lo:hi], zero-based and half-open
Slice(s, lo, hi) == SubSeq(s, lo + 1, hi)

\* "Remove /add command from the beginning"
StripAdd(t) ==
    LET trimmed == TrimSpace(t)
    IN  IF HasPrefix(trimmed, AddCmd)
        THEN TrimSpace(Slice(trimmed, 4, Len(trimmed)))
        ELSE trimmed

\* "Remove quotes if present": whether the description is taken to be quoted
IsQuoted(description) ==
    \/ HasPrefix(description, <<"\"">>) /\ HasSuffix(description, <<"\"">>)
    \/ HasPrefix(description, <<"'">>) /\ HasSuffix(description, <<"'">>)

\* "Clean up description" to the end: from the text the deadline clause has
\* been removed from, and the TaskInput filled in so far
CleanUp(t, deadline, hasDeadline) ==
    LET description == TrimSpace(t)
    IN  IF IsQuoted(description) /\ ~SliceInRange(description, 1, Len(description) - 1)
        THEN Panicked
        ELSE LET unquoted == IF IsQuoted(description)
                             THEN Slice(description, 1, Len(description) - 1)
                             ELSE description
                 final    == TrimSpace(unquoted)
             IN  IF final = <<>>
                 THEN Returned(NilInput, Error("task description cannot be empty"))
                 ELSE Returned(TaskInput(final, deadline, hasDeadline), NoError)

\* the function from "Check if there's a deadline specification" on
ParseBody(t) ==
    LET matches  == FindStringSubmatch(t)
        deadline == ParseDate(matches.group)
    IN  IF matches.ok
        THEN IF deadline.err # NoError
             THEN Returned(NilInput, deadline.err)
             ELSE CleanUp(ReplaceAllString(t), deadline.value, TRUE)
        ELSE CleanUp(t, ZeroTime, FALSE)

\* (mutation: the blank-input check left out)
ParseAddCommandNoBlankCheck(t) ==
    IF StripAdd(t) = <<>> THEN Returned(NilInput, Error("missing task description"))
    ELSE ParseBody(StripAdd(t))

ParseAddCommand(t) ==
    IF TrimSpace(t) = <<>> THEN Returned(NilInput, Error("empty command text"))
    ELSE IF StripAdd(t) = <<>> THEN Returned(NilInput, Error("missing task description"))
    ELSE ParseBody(StripAdd(t))

----------------------------------------------------------------------------
(* SplitCommandArgs *)

\* the loop's variables: args, current (the builder), inQuotes, quoteChar
\* ("" stands for byte(0))
SplitStart == [args |-> <<>>, current |-> <<>>, inQuotes |-> FALSE, quoteChar |-> ""]

\* (mutation: the quote characters are written to the argument)
SplitStepKeepQuotes(st, char) ==
    IF ~st.inQuotes /\ (char = "\"" \/ char = "'")
    THEN [st EXCEPT !.inQuotes = TRUE, !.quoteChar = char, !.current = Append(@, char)]
    ELSE IF st.inQuotes /\ char = st.quoteChar
    THEN [st EXCEPT !.inQuotes = FALSE, !.quoteChar = "", !.current = Append(@, char)]
    ELSE IF ~st.inQuotes /\ (char = " " \/ char = "\t")
    THEN IF Len(st.current) > 0
         THEN [st EXCEPT !.args = Append(@, st.current), !.current = <<>>]
         ELSE st
    ELSE [st EXCEPT !.current = Append(@, char)]

\* (mutation: either quote character closes a quoted span)
SplitStepAnyQuoteCloses(st, char) ==
    IF ~st.inQuotes /\ (char = "\"" \/ char = "'")
    THEN [st EXCEPT !.inQuotes = TRUE, !.quoteChar = char]
    ELSE IF st.inQuotes /\ (char = "\"" \/ char = "'")
    THEN [st EXCEPT !.inQuotes = FALSE, !.quoteChar = ""]
    ELSE IF ~st.inQuotes /\ (char = " " \/ char = "\t")
    THEN IF Len(st.current) > 0
         THEN [st EXCEPT !.args = Append(@, st.current), !.current = <<>>]
         ELSE st
    ELSE [st EXCEPT !.current = Append(@, char)]

\* one iteration of the loop, on the byte char
SplitStep(st, char) ==
    IF ~st.inQuotes /\ (char = "\"" \/ char = "'")
    THEN [st EXCEPT !.inQuotes = TRUE, !.quoteChar = char]
    ELSE IF st.inQuotes /\ char = st.quoteChar
    THEN [st EXCEPT !.inQuotes = FALSE, !.quoteChar = ""]
    ELSE IF ~st.inQuotes /\ (char = " " \/ char = "\t")
    THEN IF Len(st.current) > 0
         THEN [st EXCEPT !.args = Append(@, st.current), !.current = <<>>]
         ELSE st
    ELSE [st EXCEPT !.current = Append(@, char)]

\* the loop from byte i on
RECURSIVE SplitLoop(_, _, _)
SplitLoop(t, i, st) ==
    IF i > Len(t) THEN st ELSE SplitLoop(t, i + 1, SplitStep(st, t[i]))

SplitCommandArgs(t) ==
    LET st == SplitLoop(t, 1, SplitStart)
    IN  IF Len(st.current) > 0 THEN Append(st.args, st.current) ELSE st.args

----------------------------------------------------------------------------
(* Task and Task.Validate *)

StatusActive == "active"

StatusDone == "done"

StatusPostponed == "postponed"

Task(id, userID, description, processed, deadline, status, createdAt, updatedAt) ==
    [ID |-> id, UserID |-> userID, OriginalDescription |-> description,
     LLMProcessedDesc |-> processed, Deadline |-> deadline, Status |-> status,
     CreatedAt |-> createdAt, UpdatedAt |-> updatedAt]

\* the zero Task
ZeroTask == Task(0, 0, <<>>, <<>>, ZeroTime, "", ZeroTime, ZeroTime)

\* the characters of the model that take two bytes in UTF-8; the others take one
TwoByteChars == {"U0441", "U0440", "U043E", "U043A", "U0085", "U00A0"}

\* len(s): the number of bytes
ByteLen(s) == Len(s) + Cardinality({i \in DOMAIN s : s[i] \in TwoByteChars})

\* the longest description Validate accepts, as len() counts it
MaxDescriptionLen == 1000

isValidStatus(status) == status \in {StatusActive, StatusDone, StatusPostponed}

\* (mutation: the status checked before the description)
ValidateStatusFirst(t) ==
    IF t.UserID <= 0 THEN Error("user_id must be a positive integer")
    ELSE IF t.Status # "" /\ ~isValidStatus(t.Status)
    THEN Error("status must be one of: active, done, postponed")
    ELSE IF TrimSpace(t.OriginalDescription) = <<>>
    THEN Error("original_description cannot be empty")
    ELSE IF ByteLen(t.OriginalDescription) > MaxDescriptionLen
    THEN Error("original_description cannot exceed 1000 characters")
    ELSE NoError

Validate(t) ==
    IF t.UserID <= 0 THEN Error("user_id must be a positive integer")
    ELSE IF TrimSpace(t.OriginalDescription) = <<>>
    THEN Error("original_description cannot be empty")
    ELSE IF ByteLen(t.OriginalDescription) > MaxDescriptionLen
    THEN Error("original_description cannot exceed 1000 characters")
    ELSE IF t.Status # "" /\ ~isValidStatus(t.Status)
    THEN Error("status must be one of: active, done, postponed")
    ELSE NoError

\* Time.IsZero
IsZero(t) == t = ZeroTime

\* the fields of a time from the most to the least significant
TimeKey(t) == <<t.year, t.month, t.day, t.hour, t.min, t.sec, t.nsec>>

\* a sequence of numbers before another of the same length, lexicographically
LexLess(a, b) == \E i \in DOMAIN a : a[i] < b[i] /\ \A j \in 1..(i - 1) : a[j] = b[j]

\* Time.After: t is a later instant than u (both in time.Local)
After(t, u) == LexLess(TimeKey(u), TimeKey(t))

IsDone(t) == t.Status = StatusDone

HasDeadline(t) == ~IsZero(t.Deadline)

\* (mutation: a done task can be overdue)
IsOverdueEvenIfDone(t, timeNow) ==
    IF ~HasDeadline(t) THEN FALSE ELSE After(timeNow, t.Deadline)

\* Task.IsOverdue, with the value time.Now() returns as a parameter
IsOverdue(t, timeNow) ==
    IF ~HasDeadline(t) \/ IsDone(t) THEN FALSE ELSE After(timeNow, t.Deadline)

\* Task.SetDefaults, with the value time.Now() returns as a parameter
SetDefaults(t, timeNow) ==
    [t EXCEPT !.Status = IF @ = "" THEN StatusActive ELSE @,
              !.CreatedAt = IF IsZero(@) THEN timeNow ELSE @,
              !.UpdatedAt = timeNow]

\* utils.ValidateDescription: the description is trimmed first, then measured
\* with len() against the same literal 1000
ValidateDescription(description) ==
    IF TrimSpace(description) = <<>> THEN Error("description cannot be empty")
    ELSE IF ByteLen(TrimSpace(description)) > MaxDescriptionLen
    THEN Error("description too long (maximum 1000 characters)")
    ELSE NoError

----------------------------------------------------------------------------
(* The tasks table and SqliteTaskRepository *)

\* Time.Format(time.RFC3339): the text of a time, modelled as the fields it
\* prints, in order; the fraction of a second is not printed.  Every time of
\* the program is in time.Local, so the offset printed is the same in every
\* text and is left out.
FormatRFC3339(t) == <<t.year, t.month, t.day, t.hour, t.min, t.sec>>

\* time.Parse(time.RFC3339, x)
ParseRFC3339(x) == Time(x[1], x[2], x[3], x[4], x[5], x[6])

\* sql.NullString; NULL is the value with Valid false
NullString(x) == [Valid |-> TRUE, String |-> x]

Null == [Valid |-> FALSE]

\* (mutation: the constraint lets the empty text through)
CheckStatusOrEmpty(status) == status \in {"", "active", "done", "postponed"}

\* the CHECK constraint of column status
CheckStatus(status) == status \in {"active", "done", "postponed"}

\* the row INSERT writes for a task under a new id
InsertRow(id, t) ==
    [id |-> id, user_id |-> t.UserID,
     original_description |-> t.OriginalDescription,
     llm_processed_desc |-> t.LLMProcessedDesc,
     deadline |-> IF HasDeadline(t) THEN NullString(FormatRFC3339(t.Deadline)) ELSE Null,
     status |-> t.Status,
     created_at |-> FormatRFC3339(t.CreatedAt),
     updated_at |-> FormatRFC3339(t.UpdatedAt)]

\* (mutation: UPDATE writes user_id and created_at too)
UpdateRowAllColumns(row, t) == InsertRow(row.id, t)

\* the row UPDATE leaves for a task: five columns are set
UpdateRow(row, t) ==
    [row EXCEPT !.original_description = t.OriginalDescription,
                !.llm_processed_desc = t.LLMProcessedDesc,
                !.deadline = IF HasDeadline(t) THEN NullString(FormatRFC3339(t.Deadline))
                             ELSE Null,
                !.status = t.Status,
                !.updated_at = FormatRFC3339(t.UpdatedAt)]

\* (mutation: a NULL deadline read back as the time of creation)
ScanTaskDeadlineFromCreation(row) ==
    Task(row.id, row.user_id, row.original_description, row.llm_processed_desc,
         ParseRFC3339(IF row.deadline.Valid THEN row.deadline.String ELSE row.created_at),
         row.status, ParseRFC3339(row.created_at), ParseRFC3339(row.updated_at))

\* the Task that Scan and the parsing of the optional fields make of a row
ScanTask(row) ==
    Task(row.id, row.user_id, row.original_description, row.llm_processed_desc,
         IF row.deadline.Valid THEN ParseRFC3339(row.deadline.String) ELSE ZeroTime,
         row.status, ParseRFC3339(row.created_at), ParseRFC3339(row.updated_at))

\* errors of the repository: a validation error wraps the validator's
\* reason, a storage error wraps the database's
ValidationError(cause) == [kind |-> "task validation failed", cause |-> cause.kind, id |-> 0]

NotFound(id) == [kind |-> "task not found", cause |-> "nil", id |-> id]

StorageError(msg, cause) == [kind |-> msg, cause |-> cause, id |-> 0]

NoRepoError == [kind |-> "nil", cause |-> "nil", id |-> 0]

\* a nil *models.Task
NilTask == [nil |-> TRUE]

\* what a call leaves: the error returned, the caller's task (or the task
\* returned), the rows and the sequence
Outcome(e, t, r, l) == [err |-> e, task |-> t, rows |-> r, lastID |-> l]

\* (mutation: the id of the new row is the smallest id not in use)
InsertIDSmallestFree(r, l) == CHOOSE id \in 1..(l + 1) : id \notin DOMAIN r /\
                                  \A j \in 1..(id - 1) : j \in DOMAIN r

\* INTEGER PRIMARY KEY AUTOINCREMENT: the id of the new row is one more than
\* the largest id ever assigned
InsertID(r, l) == l + 1

\* (mutation: no defaults before the insert)
AddTaskNoDefaults(r, l, t, timeNow) ==
    IF Validate(t) # NoError THEN Outcome(ValidationError(Validate(t)), t, r, l)
    ELSE IF ~CheckStatus(t.Status)
    THEN Outcome(StorageError("failed to insert task", "CHECK constraint failed"), t, r, l)
    ELSE Outcome(NoRepoError, [t EXCEPT !.ID = InsertID(r, l)],
                 r @@ (InsertID(r, l) :> InsertRow(InsertID(r, l), t)), InsertID(r, l))

\* AddTask on rows r and sequence l
AddTask(r, l, t, timeNow) ==
    IF Validate(t) # NoError THEN Outcome(ValidationError(Validate(t)), t, r, l)
    ELSE LET d  == SetDefaults(t, timeNow)
             id == InsertID(r, l)
         IN  IF ~CheckStatus(d.Status)
             THEN Outcome(StorageError("failed to insert task", "CHECK constraint failed"),
                          d, r, l)
             ELSE Outcome(NoRepoError, [d EXCEPT !.ID = id], r @@ (id :> InsertRow(id, d)), id)

\* (mutation: a row is found whatever the id)
GetTaskAnyRow(r, id) ==
    IF r = <<>> THEN Outcome(NotFound(id), NilTask, r, 0)
    ELSE Outcome(NoRepoError, ScanTask(r[CHOOSE i \in DOMAIN r : TRUE]), r, 0)

\* GetTask
GetTask(r, id) ==
    IF id \notin DOMAIN r THEN Outcome(NotFound(id), NilTask, r, 0)
    ELSE Outcome(NoRepoError, ScanTask(r[id]), r, 0)

\* (mutation: no validation before the update)
UpdateTaskNoValidate(r, l, t, timeNow) ==
    LET u == [t EXCEPT !.UpdatedAt = timeNow]
    IN  IF t.ID \notin DOMAIN r THEN Outcome(NotFound(t.ID), u, r, l)
        ELSE Outcome(NoRepoError, u, [r EXCEPT ![t.ID] = UpdateRow(@, u)], l)

\* UpdateTask: a statement that matches no row checks no constraint and
\* affects zero rows
UpdateTask(r, l, t, timeNow) ==
    IF Validate(t) # NoError THEN Outcome(ValidationError(Validate(t)), t, r, l)
    ELSE LET u == [t EXCEPT !.UpdatedAt = timeNow]
         IN  IF t.ID \notin DOMAIN r THEN Outcome(NotFound(t.ID), u, r, l)
             ELSE IF ~CheckStatus(u.Status)
             THEN Outcome(StorageError("failed to update task", "CHECK constraint failed"),
                          u, r, l)
             ELSE Outcome(NoRepoError, u, [r EXCEPT ![t.ID] = UpdateRow(@, u)], l)

\* DeleteTask
DeleteTask(r, l, id) ==
    IF id \notin DOMAIN r THEN Outcome(NotFound(id), NilTask, r, l)
    ELSE Outcome(NoRepoError, NilTask, [i \in DOMAIN r \ {id} |-> r[i]], l)

\* every order in which the rows with the ids can come
Orders(ids) ==
    {f \in [1..Cardinality(ids) -> ids] : \A i, j \in DOMAIN f : i # j => f[i] # f[j]}

\* queryTasks: the rows with the ids, scanned, in an order the ORDER BY term
\* allows: keys[id] is the text the term gives for the row, the texts are
\* compared as texts, ascending or descending; rows with equal keys can come
\* in any order
queryTasks(r, ids, keys, ascending) ==
    {[i \in DOMAIN f |-> ScanTask(r[f[i]])] :
        f \in {g \in Orders(ids) :
                    \A i, j \in DOMAIN g :
                        i < j => IF ascending THEN ~LexLess(keys[g[j]], keys[g[i]])
                                 ELSE ~LexLess(keys[g[i]], keys[g[j]])}}

\* (mutation: the active tasks ordered by created_at)
ActiveOrderKeyCreatedAt(row) == row.created_at

\* CASE WHEN deadline IS NOT NULL THEN deadline ELSE created_at END
ActiveOrderKey(row) == IF row.deadline.Valid THEN row.deadline.String ELSE row.created_at

\* (mutation: every task that is not done counts as active)
GetActiveTasksNotDone(r, userID) ==
    queryTasks(r, {i \in DOMAIN r : r[i].user_id = userID /\ r[i].status # StatusDone},
               [i \in DOMAIN r |-> ActiveOrderKey(r[i])], TRUE)

\* GetActiveTasks: the slices it can return
GetActiveTasks(r, userID) ==
    queryTasks(r, {i \in DOMAIN r : r[i].user_id = userID /\ r[i].status = StatusActive},
               [i \in DOMAIN r |-> ActiveOrderKey(r[i])], TRUE)

\* (mutation: the user's tasks oldest first)
GetTasksByUserOldestFirst(r, userID) ==
    queryTasks(r, {i \in DOMAIN r : r[i].user_id = userID},
               [i \in DOMAIN r |-> r[i].created_at], TRUE)

\* GetTasksByUser: WHERE user_id = ? ORDER BY created_at DESC
GetTasksByUser(r, userID) ==
    queryTasks(r, {i \in DOMAIN r : r[i].user_id = userID},
               [i \in DOMAIN r |-> r[i].created_at], FALSE)

\* GetTasksByStatus: WHERE user_id = ? AND status = ? ORDER BY created_at DESC
GetTasksByStatus(r, userID, status) ==
    queryTasks(r, {i \in DOMAIN r : r[i].user_id = userID /\ r[i].status = status},
               [i \in DOMAIN r |-> r[i].created_at], FALSE)

\* (mutation: the deadlines compared as instants, not as texts of whole seconds)
OverdueRowByInstant(row, timeNow) ==
    /\ row.status = StatusActive
    /\ row.deadline.Valid
    /\ After(timeNow, ParseRFC3339(row.deadline.String))

\* status = ? AND deadline IS NOT NULL AND deadline < ?, the last argument
\* the text time.Now().Format(time.RFC3339)
OverdueRow(row, timeNow) ==
    /\ row.status = StatusActive
    /\ row.deadline.Valid
    /\ LexLess(row.deadline.String, FormatRFC3339(timeNow))

\* GetOverdueTasks: the rows of the user that OverdueRow selects, ORDER BY deadline ASC
GetOverdueTasks(r, userID, timeNow) ==
    queryTasks(r, {i \in DOMAIN r : r[i].user_id = userID /\ OverdueRow(r[i], timeNow)},
               [i \in DOMAIN r |-> IF r[i].deadline.Valid THEN r[i].deadline.String
                                   ELSE r[i].created_at], TRUE)

----------------------------------------------------------------------------
(* TaskInfo and APILimit *)

\* utils.TaskInfo
TaskInfo(id, description, deadline, hasDeadline, status, isOverdue) ==
    [ID |-> id, Description |-> description, Deadline |-> deadline,
     HasDeadline |-> hasDeadline, Status |-> status, IsOverdue |-> isOverdue]

ZeroTaskInfo == TaskInfo(0, <<>>, ZeroTime, FALSE, "", FALSE)

\* fmt's %d for a number that is not negative
RECURSIVE Itoa(_)
Itoa(n) ==
    IF n < 10 THEN <<DigitChars[n + 1]>>
    ELSE Itoa(n \div 10) \o <<DigitChars[(n % 10) + 1]>>

\* the last w digits of n, zero padded
RECURSIVE Pad(_, _)
Pad(n, w) == IF w = 0 THEN <<>> ELSE Pad(n \div 10, w - 1) \o <<DigitChars[(n % 10) + 1]>>

\* Time.Format("02.01.2006")
FormatDate(t) == Pad(t.day, 2) \o <<".">> \o Pad(t.month, 2) \o <<".">> \o Pad(t.year, 4)

\* the glyph of the status: a check mark for done, a pause sign (with its
\* variation selector) for postponed, else a red circle for an overdue task
\* and a memo for any other
StatusEmoji(info) ==
    CASE info.Status = "done" -> <<"U2705">>
      [] info.Status = "postponed" -> <<"U23F8", "UFE0F">>
      [] OTHER -> IF info.IsOverdue THEN <<"U1F534">> ELSE <<"U1F4DD">>

\* "\n   " and the alarm clock, then the word for "deadline", a colon and a space
DeadlineLabel ==
    <<"\n", " ", " ", " ", "U23F0", " ", "U0421", "U0440", "U043E", "U043A", ":", " ">>

\* " ", the exclamation mark glyph, " " and the word for "overdue" in capitals
OverdueMark ==
    <<" ", "U2757", " ", "U041F", "U0420", "U041E", "U0421", "U0420", "U041E", "U0427",
      "U0415", "U041D", "U041E">>

\* the first line of an item
ItemHead(info, number) ==
    StatusEmoji(info) \o <<" ">> \o Itoa(number) \o <<".", " ">> \o info.Description
        \o <<" ", "(", "I", "D", ":", " ">> \o Itoa(info.ID) \o <<")">>

\* (mutation: the mark on every overdue task, whatever its status)
FormatTaskItemMarkAnyStatus(info, number) ==
    ItemHead(info, number)
        \o IF info.HasDeadline
           THEN DeadlineLabel \o FormatDate(info.Deadline)
                    \o (IF info.IsOverdue THEN OverdueMark ELSE <<>>)
           ELSE <<>>

\* FormatTaskItem
FormatTaskItem(info, number) ==
    ItemHead(info, number)
        \o IF info.HasDeadline
           THEN DeadlineLabel \o FormatDate(info.Deadline)
                    \o (IF info.IsOverdue /\ info.Status = "active" THEN OverdueMark
                        ELSE <<>>)
           ELSE <<>>

\* models.APILimit
APILimit(userID, requestsCount, resetDate, isPremium) ==
    [UserID |-> userID, RequestsCount |-> requestsCount, ResetDate |-> resetDate,
     IsPremium |-> isPremium]

ZeroAPILimit == APILimit(0, 0, ZeroTime, FALSE)

\* the requests of a regular user in one period
RequestLimit == 10

\* (mutation: an expired period does not open the limit)
CanMakeRequestNoExpiry(a, timeNow) == a.IsPremium \/ a.RequestsCount < RequestLimit

\* APILimit.CanMakeRequest, time.Now() giving timeNow
CanMakeRequest(a, timeNow) ==
    IF a.IsPremium THEN TRUE
    ELSE IF After(timeNow, a.ResetDate) THEN TRUE
    ELSE a.RequestsCount < RequestLimit

\* APILimit.ShouldReset
ShouldReset(a, timeNow) == After(timeNow, a.ResetDate)

\* time.Date(year, month, 1, 0, 0, 0, 0, loc) for a month from 1 to 24: a
\* month past December is carried into the year
FirstOfMonth(year, month) ==
    Time(year + ((month - 1) \div 12), ((month - 1) % 12) + 1, 1, 0, 0, 0)

\* (mutation: the month after December is not carried into the year)
ResetNoCarry(a, timeNow) ==
    [a EXCEPT !.RequestsCount = 0,
              !.ResetDate = Time(timeNow.year, (timeNow.month % 12) + 1, 1, 0, 0, 0)]

\* APILimit.Reset
Reset(a, timeNow) ==
    [a EXCEPT !.RequestsCount = 0,
              !.ResetDate = FirstOfMonth(timeNow.year, timeNow.month + 1)]

\* APILimit.IncrementRequests
IncrementRequests(a) == [a EXCEPT !.RequestsCount = @ + 1]

----------------------------------------------------------------------------
(* handleAdd *)

\* an update of the bot: the id of the sender (0 when the context has no
\* sender), the text, and what the surroundings do while it is handled:
\* whether the database executes the statement and whether Send succeeds
Message(sender, t, dbOK, sendOK) ==
    [sender |-> sender, text |-> t, dbOK |-> dbOK, sendOK |-> sendOK]

NoMessage == Message(0, <<>>, TRUE, TRUE)

\* a text passed to c.Send: the fixed text, named by what it says, and what
\* is formatted into it: an error's text, a task's id and description and
\* the date of its deadline
Reply(fixed, e, id, description, deadline) ==
    [text |-> fixed, err |-> e, id |-> id, description |-> description,
     deadline |-> deadline]

NoUserReply == Reply("could not determine the user", "", 0, <<>>, <<>>)

EmptyCommandReply == Reply("empty command", "", 0, <<>>, <<>>)

CommandErrorReply(e) == Reply("error in the command", e.kind, 0, <<>>, <<>>)

DescriptionErrorReply(e) == Reply("", e.kind, 0, <<>>, <<>>)

\* (mutation: the reply tells what the repository reported)
SaveFailedReplyWithCause(e) ==
    Reply("could not save the task, try later", e.kind, 0, <<>>, <<>>)

\* the reply to an error of AddTask: the error goes to the log only
SaveFailedReply(e) == Reply("could not save the task, try later", "", 0, <<>>, <<>>)

AddedReply(t) ==
    Reply("task added", "", t.ID, t.OriginalDescription,
          IF HasDeadline(t) THEN FormatDate(t.Deadline) ELSE <<>>)

\* the replies of safeHandle: after a panic, after an error of the handler
InternalErrorReply == Reply("internal error, try later", "", 0, <<>>, <<>>)

HandlerErrorReply == Reply("error while handling the command, try later", "", 0, <<>>, <<>>)

\* h.repository.AddTask: the repository's AddTask, or the error of a
\* statement the database does not execute
RepositoryAddTask(r, l, t, timeNow, dbOK) ==
    LET o == AddTask(r, l, t, timeNow)
    IN  IF o.err = NoRepoError /\ ~dbOK
        THEN Outcome(StorageError("failed to insert task", "database error"), o.task, r, l)
        ELSE o

\* how the function handleAdd passes to safeHandle ends: it panics, or it
\* has passed one text to Send; the AddTask calls it made and the store
\* it leaves
Handled(panicked, reply, calls, r, l) ==
    [panicked |-> panicked, reply |-> reply, calls |-> calls, rows |-> r, lastID |-> l]

\* what handleAdd does with the result of ParseAddCommand before it builds
\* the task: ValidateDescription of the description of a returned input
Validated(parsed) ==
    [parsed |-> parsed,
     valid  |-> IF parsed.panicked \/ parsed.err # NoError THEN NoError
                ELSE ValidateDescription(parsed.input.Description)]

\* what handleAdd computes from the text alone: the result of
\* ParseAddCommand and, when it returned an input, of ValidateDescription
Checked(t) == Validated(ParseAddCommand(t))

\* the function handleAdd passes to safeHandle, on message m, of which
\* checked is Checked(m.text), the store (r, l) and the clock at timeNow
handler(m, checked, r, l, timeNow) ==
    LET parsed == checked.parsed
        input  == parsed.input
        valid  == checked.valid
        t      == Task(0, m.sender, input.Description, <<>>,
                       IF input.HasDeadline THEN input.Deadline ELSE ZeroTime,
                       StatusActive, ZeroTime, ZeroTime)
        o      == RepositoryAddTask(r, l, t, timeNow, m.dbOK)
        call   == [task |-> t, err |-> o.err]
    IN  IF m.sender = 0 THEN Handled(FALSE, NoUserReply, <<>>, r, l)
        ELSE IF m.text = <<>> THEN Handled(FALSE, EmptyCommandReply, <<>>, r, l)
        ELSE IF parsed.panicked THEN Handled(TRUE, InternalErrorReply, <<>>, r, l)
        ELSE IF parsed.err # NoError
        THEN Handled(FALSE, CommandErrorReply(parsed.err), <<>>, r, l)
        ELSE IF valid # NoError
        THEN Handled(FALSE, DescriptionErrorReply(valid), <<>>, r, l)
        ELSE IF o.err # NoRepoError
        THEN Handled(FALSE, SaveFailedReply(o.err), <<call>>, o.rows, o.lastID)
        ELSE Handled(FALSE, AddedReply(o.task), <<call>>, o.rows, o.lastID)

\* a call of c.Send and whether it succeeded
Sent(reply, ok) == [reply |-> reply, ok |-> ok]

\* safeHandle: the calls of Send made while h runs and after it: after a
\* panic the recover sends the internal error; when the handler returns an
\* error, which is the error of its Send, the handler error is sent
safeHandle(m, h) ==
    IF h.panicked THEN <<Sent(InternalErrorReply, m.sendOK)>>
    ELSE IF ~m.sendOK THEN <<Sent(h.reply, FALSE), Sent(HandlerErrorReply, FALSE)>>
    ELSE <<Sent(h.reply, TRUE)>>

----------------------------------------------------------------------------
(* Before any call: each entry point's argument and result *)

Date(y, m, d) == [year |-> y, month |-> m, day |-> d]

RawSrc == [written |-> FALSE, layout |-> <<>>, date |-> Date(1, 1, 1)]

IdleDate == dateStr = <<>> /\ dateSrc = RawSrc /\ dateRes = NotCalled

IdleAdd == text = <<>> /\ addRes = NotCalled

IdleSplit == splitText = <<>> /\ splitRes = NotCalled

IdleValidate == task = ZeroTask /\ validateRes = NotCalled /\ descriptionRes = NotCalled

IdleOverdue == overdueLog = <<>>

IdleStore == now = ZeroTime /\ rows = <<>> /\ lastID = 0 /\ op = NotCalled

IdleFormat == item = [task |-> ZeroTaskInfo, number |-> 0] /\ itemRes = NotCalled

IdleLimit ==
    limit = ZeroAPILimit /\ canRes = NotCalled /\ granted = [upTo |-> 0, past |-> 0]

IdleProcs == procs = <<>>

IdleHandler == message = NoMessage /\ outbox = <<>> /\ addCalls = <<>>

\* nothing is formatted, no limit is used, no call runs and no message is handled
IdleRest == IdleFormat /\ IdleLimit /\ IdleProcs /\ IdleHandler

----------------------------------------------------------------------------
(* ParseDate called once on an input *)

\* Time.Format for the layouts above: zero-padded decimal fields
TwoDigits(n) == <<DigitChars[(n \div 10) + 1], DigitChars[(n % 10) + 1]>>

FourDigits(n) == TwoDigits(n \div 100) \o TwoDigits(n % 100)

TimeFormat(layout, t) ==
    Flatten([i \in DOMAIN layout |->
                IF layout[i] = "2006" THEN FourDigits(t.year)
                ELSE IF layout[i] = "01" THEN TwoDigits(t.month)
                ELSE IF layout[i] = "02" THEN TwoDigits(t.day)
                ELSE <<layout[i]>>])

\* the years of the calendar dates written: a leap year, a common year, and
\* the two kinds of century year
Years == {1900, 2000, 2003, 2024}

CalendarDates ==
    {dd \in [year : Years, month : 1..12, day : 1..31] : dd.day <= daysIn(dd.month, dd.year)}

\* raw inputs: three digit fields joined by two separators, in and out of
\* range, well and badly shaped
RawFields == {<<"2", "0", "0", "3">>, <<"2", "0", "2", "4">>, <<"0", "0">>, <<"0", "1">>,
              <<"0", "2">>, <<"1", "2">>, <<"1", "3">>, <<"2", "9">>, <<"3", "0">>,
              <<"3", "1">>, <<"1">>}

Separators == {"-", ".", "/"}

Pads == {<<>>, <<" ">>, <<"\t", " ">>, <<"\n">>}

RawDateInputs ==
    {f1 \o <<s1>> \o f2 \o <<s2>> \o f3 :
        f1 \in RawFields, f2 \in RawFields, f3 \in RawFields,
        s1 \in Separators, s2 \in Separators}
    \cup {l \o s \o t : l \in Pads, t \in Pads,
                        s \in {<<>>, <<"x">>, <<"2", "0", "0", "3", "-", "0", "1", "-", "0", "2">>,
                               <<"1", "3", "/", "0", "1", "/", "2", "0", "0", "3">>}}

InitDate ==
    /\ \/ \E i \in DOMAIN formats, d \in CalendarDates :
            /\ dateSrc = [written |-> TRUE, layout |-> formats[i], date |-> d]
            /\ dateStr = TimeFormat(formats[i], d)
       \/ /\ dateSrc = RawSrc
          /\ dateStr \in RawDateInputs
    /\ dateRes = NotCalled
    /\ IdleAdd /\ IdleSplit /\ IdleValidate /\ IdleOverdue /\ IdleStore /\ IdleRest

CallParseDate ==
    /\ ~dateRes.called
    /\ dateRes' = [called |-> TRUE, value |-> ParseDate(dateStr).value,
                   err |-> ParseDate(dateStr).err]
    /\ UNCHANGED <<formatVars, limitVars, procs, handlerVars, dateStr, dateSrc, text, addRes, splitText, splitRes, task, validateRes,
                   descriptionRes, overdueLog, storeVars>>

NextDate == CallParseDate

SpecDate == InitDate /\ [][NextDate]_vars

----------------------------------------------------------------------------
(* Claims about ParseDate, checked under SpecDate *)

EndOfDay(d) == Time(d.year, d.month, d.day, 23, 59, 59)

\* the six formats in the order the specification lists them
ListedOrder == <<
    <<"2006", "-", "01", "-", "02">>,
    <<"02", ".", "01", ".", "2006">>,
    <<"02", "/", "01", "/", "2006">>,
    <<"2006", "/", "01", "/", "02">>,
    <<"02", "-", "01", "-", "2006">>,
    <<"01", "/", "02", "/", "2006">>
>>

DayFirstSlash == <<"02", "/", "01", "/", "2006">>

MonthFirstSlash == <<"01", "/", "02", "/", "2006">>

Str_01_02_2003 == <<"0", "1", "/", "0", "2", "/", "2", "0", "0", "3">>

\* C4: ParseDate returns the date of the first format, in the listed order
\* YYYY-MM-DD, DD.MM.YYYY, DD/MM/YYYY, YYYY/MM/DD, DD-MM-YYYY, MM/DD/YYYY, that
\* parses the trimmed input, and fails only when none does; an input valid
\* both day-first and month-first (01/02/2003) is read day-first, and the
\* month-first reading is returned only when the day-first one is invalid.
C4_FirstListedFormatWins ==
    dateRes.called =>
        LET s     == TrimSpace(dateStr)
            ok(i) == TimeParse(ListedOrder[i], s).ok
        IN  /\ (dateRes.err = NoError) <=> (\E i \in DOMAIN ListedOrder : ok(i))
            /\ \A i \in DOMAIN ListedOrder :
                    (ok(i) /\ \A j \in 1..(i - 1) : ~ok(j))
                        => dateRes.value = EndOfDay(TimeParse(ListedOrder[i], s))
            /\ TimeParse(DayFirstSlash, s).ok
                    => dateRes.value = EndOfDay(TimeParse(DayFirstSlash, s))
            /\ (dateRes.err = NoError /\ TimeParse(MonthFirstSlash, s).ok
                    /\ dateRes.value = EndOfDay(TimeParse(MonthFirstSlash, s))
                    /\ TimeParse(MonthFirstSlash, s).day # TimeParse(MonthFirstSlash, s).month)
                    => ~TimeParse(DayFirstSlash, s).ok
            /\ dateStr = Str_01_02_2003 => dateRes.value = Time(2003, 2, 1, 23, 59, 59)

\* C4 witness: 01/02/2003, valid under two formats, was parsed as 1 February
C4_Witness ==
    /\ dateRes.called
    /\ dateStr = Str_01_02_2003
    /\ TimeParse(DayFirstSlash, dateStr).ok /\ TimeParse(MonthFirstSlash, dateStr).ok
    /\ dateRes.value.month = 2 /\ dateRes.value.day = 1

\* C5 (as stated): for every calendar date d and each of the six formats,
\* ParseDate of d written in that format succeeds and returns d at 23:59:59.
C5_EveryFormatRoundTrips ==
    (dateRes.called /\ dateSrc.written) =>
        dateRes.err = NoError /\ dateRes.value = EndOfDay(dateSrc.date)

\* C5 (amended): every successful result is at 23:59:59; a date written in
\* one of the first five formats, or written MM/DD/YYYY with its day above 12
\* or equal to its month, is returned as that same date; a date written
\* MM/DD/YYYY with a day of 12 or less is read day-first, so the date with day
\* and month exchanged is returned.
C5_RoundTripExceptAmbiguousUS ==
    dateRes.called =>
        /\ dateRes.err = NoError =>
                dateRes.value.hour = 23 /\ dateRes.value.min = 59 /\ dateRes.value.sec = 59
        /\ dateSrc.written =>
                LET d == dateSrc.date
                IN  /\ dateRes.err = NoError
                    /\ (dateSrc.layout # MonthFirstSlash \/ d.day > 12 \/ d.day = d.month)
                            => dateRes.value = EndOfDay(d)
                    /\ (dateSrc.layout = MonthFirstSlash /\ d.day <= 12)
                            => dateRes.value = EndOfDay(Date(d.year, d.day, d.month))

\* C5 witness: a date written MM/DD/YYYY with a day above 12 came back unchanged
C5_Witness ==
    /\ dateRes.called /\ dateSrc.written
    /\ dateSrc.layout = MonthFirstSlash /\ dateSrc.date.day > 12
    /\ dateRes.err = NoError /\ dateRes.value = EndOfDay(dateSrc.date)

\* the name of a layout as the error text would list it
LayoutName(layout) ==
    [i \in DOMAIN layout |->
        IF layout[i] = "2006" THEN "YYYY"
        ELSE IF layout[i] = "01" THEN "MM"
        ELSE IF layout[i] = "02" THEN "DD"
        ELSE layout[i]]

\* C6: ParseDate fails with InvalidInput on an input that is empty once
\* trimmed and with InvalidFormat on one that matches no format; the
\* InvalidFormat error lists every one of the six formats ParseDate accepts;
\* a failure returns the zero time.
C6_ErrorListsEveryFormat ==
    dateRes.called =>
        /\ TrimSpace(dateStr) = <<>> => dateRes.err.kind = "empty date string"
        /\ (TrimSpace(dateStr) # <<>> /\ FirstFormat(TrimSpace(dateStr), 1) = 0) =>
                /\ dateRes.err.kind = "invalid date format"
                /\ \A i \in DOMAIN formats : LayoutName(formats[i]) \in Range(dateRes.err.supported)
        /\ dateRes.err # NoError => dateRes.value = ZeroTime

----------------------------------------------------------------------------
(* ParseAddCommand called once on an input *)

DateText1 == <<"2", "0", "2", "5", "-", "0", "7", "-", "1", "5">>

DateText2 == <<"0", "1", "/", "0", "2", "/", "2", "0", "0", "3">>

\* what may stand before the description
Prefixes == {<<>>, AddCmd, AddCmd \o <<" ">>, <<" ">> \o AddCmd}

\* pieces of description text ("U00A0", the no-break space, is a space to
\* strings.TrimSpace and not to the \s of the pattern)
Fragments == {<<>>, <<"x">>, <<" ">>, <<"U00A0">>, <<"\"">>, <<"'">>, <<"\"", "x", "\"">>}

\* deadline clauses, well and badly formed
Clauses == {<<>>,
            <<" ">> \o Keyword \o DateText1,
            <<"\t", " ">> \o Keyword \o <<" ">> \o DateText2,
            Keyword \o DateText1,
            <<" ">> \o Keyword \o <<"x">>,
            <<" ">> \o Keyword}

AddInputs ==
    {Flatten(<<p, h, c1, m, c2, t>>) :
        p \in Prefixes, h \in Fragments, c1 \in Clauses, m \in Fragments,
        c2 \in Clauses, t \in Fragments}

InitAdd ==
    /\ text \in AddInputs
    /\ addRes = NotCalled
    /\ IdleDate /\ IdleSplit /\ IdleValidate /\ IdleOverdue /\ IdleStore /\ IdleRest

CallParseAddCommand ==
    /\ ~addRes.called
    /\ addRes' = ParseAddCommand(text)
    /\ UNCHANGED <<formatVars, limitVars, procs, handlerVars, dateStr, dateSrc, dateRes, text, splitText, splitRes, task, validateRes,
                   descriptionRes, overdueLog, storeVars>>

NextAdd == CallParseAddCommand

SpecAdd == InitAdd /\ [][NextAdd]_vars

----------------------------------------------------------------------------
(* Claims about ParseAddCommand, checked under SpecAdd *)

\* whitespace, as the clause pattern counts it
ClauseSpace == {" ", "\t", "\n", "\r", "\f"}

\* a clause has its keyword at position b of s: whitespace before it, then
\* optional whitespace and a character that is not whitespace after it
ClauseAt(s, b) ==
    /\ b > 1 /\ s[b - 1] \in ClauseSpace
    /\ b + 4 <= Len(s) /\ SubSeq(s, b, b + 4) = Keyword
    /\ \E c \in (b + 5)..Len(s) :
            s[c] \notin ClauseSpace /\ \A k \in (b + 5)..(c - 1) : s[k] \in ClauseSpace

HasClause(s) == \E b \in 1..Len(s) : ClauseAt(s, b)

\* the leftmost clause of s: where its whitespace starts, where its token
\* starts and where the token ends
FirstClause(s) ==
    LET b == CHOOSE x \in 1..Len(s) : ClauseAt(s, x) /\ \A y \in 1..(x - 1) : ~ClauseAt(s, y)
        a == CHOOSE x \in 1..(b - 1) :
                /\ \A k \in x..(b - 1) : s[k] \in ClauseSpace
                /\ x = 1 \/ s[x - 1] \notin ClauseSpace
        c == CHOOSE x \in (b + 5)..Len(s) :
                s[x] \notin ClauseSpace /\ \A k \in (b + 5)..(x - 1) : s[k] \in ClauseSpace
        e == CHOOSE x \in c..Len(s) :
                /\ \A k \in c..x : s[k] \notin ClauseSpace
                /\ x = Len(s) \/ s[x + 1] \in ClauseSpace
    IN  [from |-> a, token |-> SubSeq(s, c, e), to |-> e]

\* s with every clause taken out, left to right
RECURSIVE WithoutClauses(_)
WithoutClauses(s) ==
    IF ~HasClause(s) THEN s
    ELSE SubSeq(s, 1, FirstClause(s).from - 1)
            \o WithoutClauses(SubSeq(s, FirstClause(s).to + 1, Len(s)))

\* s is wrapped in one matching pair of quotes
WrappedInPair(s) ==
    Len(s) >= 2 /\ s[1] = s[Len(s)] /\ s[1] \in {"\"", "'"}

\* trimmed, the outer pair of quotes stripped, trimmed again
Tidy(s) ==
    LET d == TrimSpace(s)
    IN  TrimSpace(IF WrappedInPair(d) THEN SubSeq(d, 2, Len(d) - 1) ELSE d)

\* C1: a TaskInput returned by ParseAddCommand has HasDeadline = TRUE exactly
\* when the text left after stripping /add contains a deadline clause
\* (whitespace, the keyword, optional whitespace, a token); then Deadline is
\* ParseDate of the (leftmost) clause's token and the description is the text
\* without its clauses, wherever they stand, tidied; a ParseDate error on that
\* token is returned unchanged with a nil TaskInput; with no clause the
\* description is the whole remaining text, tidied.
C1_DeadlineClause ==
    (addRes.called /\ ~addRes.panicked /\ StripAdd(text) # <<>>) =>
        LET rest == StripAdd(text)
            d    == ParseDate(FirstClause(rest).token)
        IN  IF HasClause(rest)
            THEN IF d.err # NoError
                 THEN addRes.err = d.err /\ addRes.input = NilInput
                 ELSE addRes.err = NoError =>
                        /\ addRes.input.HasDeadline
                        /\ addRes.input.Deadline = d.value
                        /\ addRes.input.Description = Tidy(WithoutClauses(rest))
            ELSE /\ addRes.err.kind # "invalid date format"
                 /\ addRes.err = NoError =>
                        /\ ~addRes.input.HasDeadline
                        /\ addRes.input.Description = Tidy(rest)

\* C1 witness: a clause in the middle of the text was parsed and removed
C1_Witness ==
    /\ addRes.called /\ addRes.err = NoError /\ ~addRes.input.nil
    /\ HasClause(StripAdd(text))
    /\ FirstClause(StripAdd(text)).to < Len(StripAdd(text))
    /\ addRes.input.HasDeadline
    /\ addRes.input.Deadline = Time(2025, 7, 15, 23, 59, 59)
    /\ addRes.input.Description = <<"x", " ", "x">>

\* the text passes the stages before the description is cleaned up
PassesDateStage(rest) ==
    HasClause(rest) => ParseDate(FirstClause(rest).token).err = NoError

\* C2: ParseAddCommand fails, in this order, with "empty command text" on a
\* blank input, with "missing task description" when nothing is left after
\* the leading /add, and with "task description cannot be empty" when the
\* description is empty once the deadline clause is removed and the text
\* tidied; a successful result has a non-empty description without leading
\* or trailing whitespace.
C2_FailureStages ==
    (addRes.called /\ ~addRes.panicked) =>
        /\ TrimSpace(text) = <<>> =>
                addRes.err.kind = "empty command text" /\ addRes.input = NilInput
        /\ (TrimSpace(text) # <<>> /\ StripAdd(text) = <<>>) =>
                addRes.err.kind = "missing task description" /\ addRes.input = NilInput
        /\ (StripAdd(text) # <<>> /\ PassesDateStage(StripAdd(text))
                /\ Tidy(WithoutClauses(StripAdd(text))) = <<>>) =>
                addRes.err.kind = "task description cannot be empty" /\ addRes.input = NilInput
        /\ addRes.err = NoError =>
                /\ ~addRes.input.nil
                /\ addRes.input.Description # <<>>
                /\ ~IsSpace(addRes.input.Description[1])
                /\ ~IsSpace(addRes.input.Description[Len(addRes.input.Description)])
        /\ addRes.err # NoError => addRes.input = NilInput

\* C2 witness: a quoted empty description before a valid deadline clause was
\* rejected at the last stage
C2_Witness ==
    /\ addRes.called
    /\ TrimSpace(text) # <<>> /\ StripAdd(text) # <<>>
    /\ HasClause(StripAdd(text)) /\ PassesDateStage(StripAdd(text))
    /\ addRes.err.kind = "task description cannot be empty"

\* C3: ParseAddCommand returns a result or an error for every input and never
\* panics, also when the description left is a single quote character.
C3_NeverPanics == addRes.called => ~addRes.panicked

\* the text begins with the token /add: the literal, then whitespace or the end
BeginsWithAddToken(s) ==
    HasPrefix(s, AddCmd) /\ (Len(s) = Len(AddCmd) \/ IsSpace(s[Len(AddCmd) + 1]))

\* C7: a leading /add is stripped only as a token; for a text that does not
\* begin with the token /add (as "/address book"), description and deadline
\* are computed from the whole text, nothing removed from its first word.
C7_AddStrippedOnlyAsToken ==
    (addRes.called /\ TrimSpace(text) # <<>>) =>
        IF BeginsWithAddToken(TrimSpace(text))
        THEN StripAdd(text) # <<>> => addRes = ParseBody(StripAdd(text))
        ELSE addRes = ParseBody(TrimSpace(text))

\* C8: once the deadline clause is removed and the text trimmed, the wrapping
\* quotes are stripped exactly when the text is wrapped in one matching pair
\* (first and last character the same quote type); then that one pair is
\* removed and the inner characters are kept, and otherwise the text is left
\* unchanged.
C8_QuotesStrippedWhenPaired ==
    (addRes.called /\ StripAdd(text) # <<>> /\ PassesDateStage(StripAdd(text))) =>
        LET d == TrimSpace(WithoutClauses(StripAdd(text)))
            inner == SubSeq(d, 2, Len(d) - 1)
        IN  IF WrappedInPair(d)
            THEN IF TrimSpace(inner) = <<>>
                 THEN addRes.err.kind = "task description cannot be empty"
                 ELSE addRes.err = NoError /\ addRes.input.Description = TrimSpace(inner)
            ELSE IF d = <<>>
                 THEN addRes.err.kind = "task description cannot be empty"
                 ELSE addRes.err = NoError /\ addRes.input.Description = d

----------------------------------------------------------------------------
(* SplitCommandArgs called once on an input *)

\* the longest generated input of SplitCommandArgs
MaxSplitLen == 5

SplitChars == {"a", " ", "\t", "\n", "\"", "'"}

\* arg1 "quoted arg" arg3
SplitExample ==
    <<"a", "r", "g", "1", " ", "\"", "q", "u", "o", "t", "e", "d", " ", "a", "r", "g", "\"",
      " ", "a", "r", "g", "3">>

SplitInputs ==
    UNION {[1..n -> SplitChars] : n \in 0..MaxSplitLen} \cup {SplitExample}

InitSplit ==
    /\ splitText \in SplitInputs
    /\ splitRes = NotCalled
    /\ IdleDate /\ IdleAdd /\ IdleValidate /\ IdleOverdue /\ IdleStore /\ IdleRest

CallSplitCommandArgs ==
    /\ ~splitRes.called
    /\ splitRes' = [called |-> TRUE, args |-> SplitCommandArgs(splitText)]
    /\ UNCHANGED <<formatVars, limitVars, procs, handlerVars, dateStr, dateSrc, dateRes, text, addRes, splitText, task, validateRes,
                   descriptionRes, overdueLog, storeVars>>

NextSplit == CallSplitCommandArgs

SpecSplit == InitSplit /\ [][NextSplit]_vars

----------------------------------------------------------------------------
(* Task.Validate called once on a task *)

Repeat(c, n) == [i \in 1..n |-> c]

ValidateUserIDs == {-1, 0, 1, 123}

ValidateDescriptions ==
    {<<>>, <<" ", " ", " ">>, <<"\t", "\n">>, <<"x">>, <<" ", "x", " ">>,
     Repeat("x", MaxDescriptionLen), Repeat("x", MaxDescriptionLen + 1),
     Repeat(" ", MaxDescriptionLen + 1),
     Repeat("U0441", MaxDescriptionLen \div 2), Repeat("U0441", MaxDescriptionLen \div 2 + 1)}

ValidateStatuses == {"", StatusActive, StatusDone, StatusPostponed, "invalid"}

InitValidate ==
    /\ \E u \in ValidateUserIDs, d \in ValidateDescriptions, st \in ValidateStatuses :
            task = [ZeroTask EXCEPT !.UserID = u, !.OriginalDescription = d, !.Status = st]
    /\ validateRes = NotCalled
    /\ descriptionRes = NotCalled
    /\ IdleDate /\ IdleAdd /\ IdleSplit /\ IdleOverdue /\ IdleStore /\ IdleRest

CallValidate ==
    /\ ~validateRes.called
    /\ validateRes' = [called |-> TRUE, err |-> Validate(task)]
    /\ UNCHANGED <<formatVars, limitVars, procs, handlerVars, dateStr, dateSrc, dateRes, text, addRes, splitText, splitRes, task,
                   descriptionRes, overdueLog, storeVars>>

\* handleAdd passes the description to utils.ValidateDescription as well
CallValidateDescription ==
    /\ ~descriptionRes.called
    /\ descriptionRes' = [called |-> TRUE, err |-> ValidateDescription(task.OriginalDescription)]
    /\ UNCHANGED <<formatVars, limitVars, procs, handlerVars, dateStr, dateSrc, dateRes, text, addRes, splitText, splitRes, task,
                   validateRes, overdueLog, storeVars>>

NextValidate == CallValidate \/ CallValidateDescription

SpecValidate == InitValidate /\ [][NextValidate]_vars

----------------------------------------------------------------------------
(* Task.IsOverdue called on one task while the clock advances *)

\* the largest number of IsOverdue calls followed
MaxOverdueCalls == 2

OverdueDeadline == Time(2025, 1, 1, 23, 59, 59)

OverdueDeadlines == {ZeroTime, OverdueDeadline, Time(2025, 1, 10, 23, 59, 59)}

\* the instants time.Now() takes: before the first deadline, the deadline's
\* own instant, half a second later, and later days
OverdueClock ==
    {Time(2024, 12, 31, 8, 0, 0), OverdueDeadline, [OverdueDeadline EXCEPT !.nsec = 500000000],
     Time(2025, 1, 5, 10, 0, 0), Time(2025, 1, 12, 9, 0, 0)}

InitOverdue ==
    /\ \E d \in OverdueDeadlines, st \in ValidateStatuses :
            task = [ZeroTask EXCEPT !.UserID = 1, !.OriginalDescription = <<"x">>,
                                    !.Deadline = d, !.Status = st]
    /\ now = Time(2024, 12, 31, 8, 0, 0)
    /\ overdueLog = <<>>
    /\ validateRes = NotCalled /\ descriptionRes = NotCalled
    /\ rows = <<>> /\ lastID = 0 /\ op = NotCalled
    /\ IdleDate /\ IdleAdd /\ IdleSplit /\ IdleRest

\* time passes
TickOverdue ==
    /\ now' \in {t \in OverdueClock : After(t, now)}
    /\ UNCHANGED <<formatVars, limitVars, procs, handlerVars, dateStr, dateSrc, dateRes, text, addRes, splitText, splitRes, task,
                   validateRes, descriptionRes, overdueLog, rows, lastID, op>>

CallIsOverdue ==
    /\ Len(overdueLog) < MaxOverdueCalls
    /\ overdueLog' = Append(overdueLog, [at |-> now, overdue |-> IsOverdue(task, now)])
    /\ UNCHANGED <<formatVars, limitVars, procs, handlerVars, dateStr, dateSrc, dateRes, text, addRes, splitText, splitRes, task,
                   validateRes, descriptionRes, storeVars>>

NextOverdue == TickOverdue \/ CallIsOverdue

SpecOverdue == InitOverdue /\ [][NextOverdue]_vars

----------------------------------------------------------------------------
(* The repository called again and again while the clock advances *)

\* the largest number of tasks added
MaxTasks == 2

Deadline1 == Time(2025, 1, 1, 23, 59, 59)

\* a deadline with a fraction of a second, as time.Now().Add(...) gives
Deadline2 == [Time(2025, 1, 10, 23, 59, 59) EXCEPT !.nsec = 500000000]

PresetCreated == Time(2024, 12, 31, 8, 0, 0)

\* the instants time.Now() takes
StoreStart == [Time(2025, 1, 5, 10, 0, 0) EXCEPT !.nsec = 500000000]

StoreClock == {StoreStart, [Time(2025, 1, 12, 9, 0, 0) EXCEPT !.nsec = 250000000]}

\* a new task as handleAdd builds it: active, no deadline
BaseTask == Task(0, 1, <<"a">>, <<>>, ZeroTime, StatusActive, ZeroTime, ZeroTime)

\* the tasks passed to the repository: BaseTask and tasks that differ from it
\* in the user (and a creation time set by the caller), the descriptions
\* (and a status other than the default), the status, or the deadline
TaskArgs ==
    {BaseTask,
     [BaseTask EXCEPT !.UserID = 0],
     [BaseTask EXCEPT !.UserID = 2, !.CreatedAt = PresetCreated],
     [BaseTask EXCEPT !.OriginalDescription = <<" ">>],
     [BaseTask EXCEPT !.OriginalDescription = <<"b">>, !.LLMProcessedDesc = <<"p">>,
                      !.Status = StatusDone],
     [BaseTask EXCEPT !.Status = ""],
     [BaseTask EXCEPT !.Status = "invalid"],
     [BaseTask EXCEPT !.Deadline = Deadline2]}

\* the record of a call
Call(kind, arg, id, o, tasks) ==
    [called |-> TRUE, kind |-> kind, arg |-> arg, id |-> id, task |-> o.task,
     tasks |-> tasks, err |-> o.err]

InitStore ==
    /\ now = StoreStart
    /\ rows = <<>>
    /\ lastID = 0
    /\ op = NotCalled
    /\ IdleDate /\ IdleAdd /\ IdleSplit /\ IdleValidate /\ IdleOverdue /\ IdleRest

\* time passes
Tick ==
    /\ now' \in {t \in StoreClock : After(t, now)}
    /\ UNCHANGED <<formatVars, limitVars, procs, handlerVars, dateStr, dateSrc, dateRes, text, addRes, splitText, splitRes, task,
                   validateRes, descriptionRes, overdueLog, rows, lastID, op>>

\* AddTask on one of args, while fewer than max tasks have been added
AddTaskStep(max, args) ==
    /\ lastID < max
    /\ \E t \in args :
            LET o == AddTask(rows, lastID, t, now)
            IN  /\ rows' = o.rows
                /\ lastID' = o.lastID
                /\ op' = Call("AddTask", t, 0, o, <<>>)
    /\ UNCHANGED <<formatVars, limitVars, procs, handlerVars, dateStr, dateSrc, dateRes, text, addRes, splitText, splitRes, task,
                   validateRes, descriptionRes, overdueLog, now>>

CallAddTask == AddTaskStep(MaxTasks, TaskArgs)

\* the ids asked for: every id assigned so far and one never assigned
IDs == 1..(lastID + 1)

CallGetTask ==
    /\ \E id \in IDs :
            op' = Call("GetTask", ZeroTask, id, GetTask(rows, id), <<>>)
    /\ UNCHANGED <<formatVars, limitVars, procs, handlerVars, dateStr, dateSrc, dateRes, text, addRes, splitText, splitRes, task,
                   validateRes, descriptionRes, overdueLog, now, rows, lastID>>

CallUpdateTask ==
    /\ \E id \in IDs, a \in TaskArgs :
            LET t == [a EXCEPT !.ID = id]
                o == UpdateTask(rows, lastID, t, now)
            IN  /\ rows' = o.rows
                /\ lastID' = o.lastID
                /\ op' = Call("UpdateTask", t, 0, o, <<>>)
    /\ UNCHANGED <<formatVars, limitVars, procs, handlerVars, dateStr, dateSrc, dateRes, text, addRes, splitText, splitRes, task,
                   validateRes, descriptionRes, overdueLog, now>>

CallDeleteTask ==
    /\ \E id \in IDs :
            LET o == DeleteTask(rows, lastID, id)
            IN  /\ rows' = o.rows
                /\ lastID' = o.lastID
                /\ op' = Call("DeleteTask", ZeroTask, id, o, <<>>)
    /\ UNCHANGED <<formatVars, limitVars, procs, handlerVars, dateStr, dateSrc, dateRes, text, addRes, splitText, splitRes, task,
                   validateRes, descriptionRes, overdueLog, now>>

NextStore == Tick \/ CallAddTask \/ CallGetTask \/ CallUpdateTask \/ CallDeleteTask

SpecStore == InitStore /\ [][NextStore]_vars

----------------------------------------------------------------------------
(* Tasks added and listed while the clock advances *)

\* the largest number of tasks added before listing
MaxListed == 3

\* a deadline in the second of the last instant of the clock, before that instant
Deadline3 == Time(2025, 1, 12, 9, 0, 0)

\* the tasks added: active tasks of user 1 without a deadline, with one
\* before the clock starts and with one in the second of its last instant;
\* a done and a postponed task of user 1 with a past deadline; an active
\* task of user 2
ListArgs ==
    {[BaseTask EXCEPT !.Deadline = d] : d \in {ZeroTime, Deadline1, Deadline3}}
    \cup {[BaseTask EXCEPT !.Status = st, !.Deadline = Deadline1] :
                st \in {StatusDone, StatusPostponed}}
    \cup {[BaseTask EXCEPT !.UserID = 2, !.Deadline = Deadline1]}

\* the users asked for
ListUsers == {1, 2}

CallAddListed == AddTaskStep(MaxListed, ListArgs)

\* the list queries
ListKinds == {"GetActiveTasks", "GetTasksByUser", "GetTasksByStatus", "GetOverdueTasks"}

\* a list query reads the store and the clock and changes neither, so a query
\* made right after another gives what it gives when made alone: the
\* queries are taken one at a time, each on the store as AddTask left it
NoListPending == ~(op.called /\ op.kind \in ListKinds)

CallGetActiveTasks ==
    /\ NoListPending
    /\ \E u \in ListUsers :
            \E tasks \in GetActiveTasks(rows, u) :
                op' = Call("GetActiveTasks", ZeroTask, u,
                           Outcome(NoRepoError, NilTask, rows, lastID), tasks)
    /\ UNCHANGED <<formatVars, limitVars, procs, handlerVars, dateStr, dateSrc, dateRes, text, addRes, splitText, splitRes, task,
                   validateRes, descriptionRes, overdueLog, now, rows, lastID>>

\* the record of a list query: the user and the status asked for, the time
\* of the call and the slice returned
ListCall(kind, userID, status, tasks) ==
    [called |-> TRUE, kind |-> kind, id |-> userID, status |-> status, at |-> now,
     tasks |-> tasks, err |-> NoRepoError]

CallGetTasksByUser ==
    /\ NoListPending
    /\ \E u \in ListUsers :
            \E tasks \in GetTasksByUser(rows, u) :
                op' = ListCall("GetTasksByUser", u, "", tasks)
    /\ UNCHANGED <<formatVars, limitVars, procs, handlerVars, parserVars, taskVars,
                   now, rows, lastID>>

\* the statuses asked for: the three of the model and one no task has
ListStatuses == {StatusActive, StatusDone, StatusPostponed, "non-existing"}

CallGetTasksByStatus ==
    /\ NoListPending
    /\ \E u \in ListUsers, st \in ListStatuses :
            \E tasks \in GetTasksByStatus(rows, u, st) :
                op' = ListCall("GetTasksByStatus", u, st, tasks)
    /\ UNCHANGED <<formatVars, limitVars, procs, handlerVars, parserVars, taskVars,
                   now, rows, lastID>>

CallGetOverdueTasks ==
    /\ NoListPending
    /\ \E u \in ListUsers :
            \E tasks \in GetOverdueTasks(rows, u, now) :
                op' = ListCall("GetOverdueTasks", u, StatusActive, tasks)
    /\ UNCHANGED <<formatVars, limitVars, procs, handlerVars, parserVars, taskVars,
                   now, rows, lastID>>

NextList ==
    \/ Tick
    \/ CallAddListed
    \/ CallGetActiveTasks
    \/ CallGetTasksByUser
    \/ CallGetTasksByStatus
    \/ CallGetOverdueTasks

SpecList == InitStore /\ [][NextList]_vars

----------------------------------------------------------------------------
(* FormatTaskItem called once on a task *)

\* the tasks formatted: of every status and one the model does not know,
\* overdue or not, without a deadline, with a past and with a coming one
ItemTasks ==
    {TaskInfo(id, d, dl, dl # ZeroTime, st, ov) :
        id \in {1, 12}, d \in {<<"a">>, <<"a", " ", "b">>},
        dl \in {ZeroTime, Deadline1, Time(2031, 12, 5, 23, 59, 59)},
        st \in {StatusActive, StatusDone, StatusPostponed, ""}, ov \in BOOLEAN}

InitFormat ==
    /\ item = [task |-> ZeroTaskInfo, number |-> 0]
    /\ itemRes = NotCalled
    /\ IdleDate /\ IdleAdd /\ IdleSplit /\ IdleValidate /\ IdleOverdue /\ IdleStore
    /\ IdleLimit /\ IdleProcs /\ IdleHandler

CallFormatTaskItem ==
    /\ ~itemRes.called
    /\ \E t \in ItemTasks, n \in {1, 10} :
            /\ item' = [task |-> t, number |-> n]
            /\ itemRes' = [called |-> TRUE, text |-> FormatTaskItem(t, n)]
    /\ UNCHANGED <<limitVars, procs, handlerVars, parserVars, taskVars, storeVars>>

NextFormat == CallFormatTaskItem

SpecFormat == InitFormat /\ [][NextFormat]_vars

----------------------------------------------------------------------------
(* One user's APILimit asked and used while the clock advances *)

\* the largest RequestsCount reached
MaxRequests == 12

LimitStart == Time(2025, 11, 20, 10, 0, 0)

\* the instants time.Now() takes: in November, the first instant of
\* December and the one after it, the last second of the year, the first
\* instant of the next year and a day of its February
LimitClock ==
    {LimitStart,
     Time(2025, 12, 1, 0, 0, 0),
     [Time(2025, 12, 1, 0, 0, 0) EXCEPT !.nsec = 1],
     [Time(2025, 12, 31, 23, 59, 59) EXCEPT !.nsec = 500000000],
     Time(2026, 1, 1, 0, 0, 0),
     Time(2026, 2, 3, 12, 0, 0)}

\* the record of a call on the limit: the limit it found and what it answered
LimitCall(kind, ok) ==
    [called |-> TRUE, kind |-> kind, at |-> now, limit |-> limit, ok |-> ok]

\* a regular or a premium user whose period started at LimitStart
InitLimit ==
    /\ now = LimitStart
    /\ \E premium \in BOOLEAN : limit = Reset(APILimit(1, 0, ZeroTime, premium), LimitStart)
    /\ canRes = NotCalled
    /\ granted = [upTo |-> 0, past |-> 0]
    /\ rows = <<>> /\ lastID = 0 /\ op = NotCalled
    /\ IdleDate /\ IdleAdd /\ IdleSplit /\ IdleValidate /\ IdleOverdue
    /\ IdleFormat /\ IdleProcs /\ IdleHandler

\* time passes
TickLimit ==
    /\ now' \in {t \in LimitClock : After(t, now)}
    /\ UNCHANGED <<limit, canRes, granted, rows, lastID, op>>
    /\ UNCHANGED <<formatVars, procs, handlerVars, parserVars, taskVars>>

CallCanMakeRequest ==
    /\ canRes' = LimitCall("CanMakeRequest", CanMakeRequest(limit, now))
    /\ UNCHANGED <<limit, granted, storeVars>>
    /\ UNCHANGED <<formatVars, procs, handlerVars, parserVars, taskVars>>

\* one request under the protocol: if CanMakeRequest then IncrementRequests
Request ==
    /\ limit.RequestsCount < MaxRequests
    /\ LET ok == CanMakeRequest(limit, now)
       IN  /\ canRes' = LimitCall("Request", ok)
           /\ limit' = IF ok THEN IncrementRequests(limit) ELSE limit
           /\ granted' = IF ~ok THEN granted
                         ELSE IF After(now, limit.ResetDate)
                              THEN [granted EXCEPT !.past = @ + 1]
                              ELSE [granted EXCEPT !.upTo = @ + 1]
    /\ UNCHANGED storeVars
    /\ UNCHANGED <<formatVars, procs, handlerVars, parserVars, taskVars>>

\* Reset, then ShouldReset
CallReset ==
    /\ limit' = Reset(limit, now)
    /\ canRes' = LimitCall("Reset", ShouldReset(limit', now))
    /\ granted' = [upTo |-> 0, past |-> 0]
    /\ UNCHANGED storeVars
    /\ UNCHANGED <<formatVars, procs, handlerVars, parserVars, taskVars>>

NextLimit == TickLimit \/ CallCanMakeRequest \/ Request \/ CallReset

SpecLimit == InitLimit /\ [][NextLimit]_vars

----------------------------------------------------------------------------
(* AddTask, UpdateTask and DeleteTask called at the same time *)

\* the number of calls running at the same time
NumProcs == 2

\* a call in progress: its kind and argument (for DeleteTask a task with
\* the id only), where it stands, the task as the call has changed it, the
\* time it read, what the sql.Result of its statement holds and the error
\* it returned
Proc(kind, arg) ==
    [kind |-> kind, arg |-> arg, pc |-> "start", task |-> arg, at |-> ZeroTime,
     insertID |-> 0, affected |-> 0, err |-> NoRepoError]

\* the calls made: AddTask of a task and of one without a user, UpdateTask
\* of a stored task and of one that is not stored, DeleteTask likewise
ProcCalls ==
    {Proc("AddTask", BaseTask),
     Proc("AddTask", [BaseTask EXCEPT !.UserID = 0]),
     Proc("UpdateTask", [BaseTask EXCEPT !.ID = 1, !.OriginalDescription = <<"b">>,
                                         !.Status = StatusDone]),
     Proc("UpdateTask", [BaseTask EXCEPT !.ID = 7]),
     Proc("DeleteTask", [ZeroTask EXCEPT !.ID = 2]),
     Proc("DeleteTask", [ZeroTask EXCEPT !.ID = 8])}

\* the store the calls start on: two tasks, with ids 1 and 2
ProcRows ==
    AddTask(AddTask(<<>>, 0, BaseTask, PresetCreated).rows, 1,
            [BaseTask EXCEPT !.Deadline = Deadline1], PresetCreated).rows

\* calls that target different ids: of two calls with an id, the ids differ
\* (AddTask has none: its id is the one the store assigns)
DifferentTargets(ps) ==
    \A i, j \in DOMAIN ps :
        (i # j /\ ps[i].kind # "AddTask" /\ ps[j].kind # "AddTask")
            => ps[i].arg.ID # ps[j].arg.ID

\* the call up to its statement: Validate, and the defaults or the update time
Prepare(p, timeNow) ==
    IF p.kind = "DeleteTask" THEN [p EXCEPT !.pc = "ready"]
    ELSE IF Validate(p.task) # NoError
    THEN [p EXCEPT !.pc = "done", !.err = ValidationError(Validate(p.task))]
    ELSE IF p.kind = "AddTask"
    THEN [p EXCEPT !.pc = "ready", !.task = SetDefaults(@, timeNow), !.at = timeNow]
    ELSE [p EXCEPT !.pc = "ready", !.task = [@ EXCEPT !.UpdatedAt = timeNow], !.at = timeNow]

\* db.Exec: the one statement of the call, executed as a whole on rows r and
\* sequence l; the sql.Result keeps the id assigned or the rows affected
Exec(p, r, l) ==
    IF p.kind = "AddTask"
    THEN IF ~CheckStatus(p.task.Status)
         THEN [proc |-> [p EXCEPT !.pc = "done",
                                  !.err = StorageError("failed to insert task",
                                                       "CHECK constraint failed")],
               rows |-> r, lastID |-> l]
         ELSE LET id == InsertID(r, l)
              IN  [proc |-> [p EXCEPT !.pc = "executed", !.insertID = id],
                   rows |-> r @@ (id :> InsertRow(id, p.task)), lastID |-> id]
    ELSE IF p.task.ID \notin DOMAIN r
    THEN [proc |-> [p EXCEPT !.pc = "executed", !.affected = 0], rows |-> r, lastID |-> l]
    ELSE IF p.kind = "DeleteTask"
    THEN [proc |-> [p EXCEPT !.pc = "executed", !.affected = 1],
          rows |-> [i \in DOMAIN r \ {p.task.ID} |-> r[i]], lastID |-> l]
    ELSE IF ~CheckStatus(p.task.Status)
    THEN [proc |-> [p EXCEPT !.pc = "done",
                             !.err = StorageError("failed to update task",
                                                  "CHECK constraint failed")],
          rows |-> r, lastID |-> l]
    ELSE [proc |-> [p EXCEPT !.pc = "executed", !.affected = 1],
          rows |-> [r EXCEPT ![p.task.ID] = UpdateRow(@, p.task)], lastID |-> l]

\* (mutation: the id is the last one the connection inserted, whoever inserted it)
LastInsertIdOfConnection(p, l) == l

\* result.LastInsertId(): the id the call's own statement was given
LastInsertId(p, l) == p.insertID

\* the call after its statement: the id set on the task, or the error for
\* no row affected
Return(p, l) ==
    IF p.kind = "AddTask"
    THEN [p EXCEPT !.pc = "done", !.task = [@ EXCEPT !.ID = LastInsertId(p, l)]]
    ELSE IF p.affected = 0 THEN [p EXCEPT !.pc = "done", !.err = NotFound(p.task.ID)]
    ELSE [p EXCEPT !.pc = "done"]

InitConcurrent ==
    /\ now = StoreStart
    /\ rows = ProcRows
    /\ lastID = 2
    /\ op = NotCalled
    /\ procs \in {ps \in [1..NumProcs -> ProcCalls] : DifferentTargets(ps)}
    /\ IdleDate /\ IdleAdd /\ IdleSplit /\ IdleValidate /\ IdleOverdue
    /\ IdleFormat /\ IdleLimit /\ IdleHandler

\* time passes while the calls run
TickConcurrent ==
    /\ \E i \in DOMAIN procs : procs[i].pc # "done"
    /\ now' \in {t \in StoreClock : After(t, now)}
    /\ UNCHANGED <<rows, lastID, op, procs>>
    /\ UNCHANGED <<formatVars, limitVars, handlerVars, parserVars, taskVars>>

StepPrepare ==
    /\ \E i \in DOMAIN procs :
            /\ procs[i].pc = "start"
            /\ procs' = [procs EXCEPT ![i] = Prepare(@, now)]
    /\ UNCHANGED <<now, rows, lastID, op>>
    /\ UNCHANGED <<formatVars, limitVars, handlerVars, parserVars, taskVars>>

StepExec ==
    /\ \E i \in DOMAIN procs :
            /\ procs[i].pc = "ready"
            /\ LET e == Exec(procs[i], rows, lastID)
               IN  /\ procs' = [procs EXCEPT ![i] = e.proc]
                   /\ rows' = e.rows
                   /\ lastID' = e.lastID
    /\ UNCHANGED <<now, op>>
    /\ UNCHANGED <<formatVars, limitVars, handlerVars, parserVars, taskVars>>

StepReturn ==
    /\ \E i \in DOMAIN procs :
            /\ procs[i].pc = "executed"
            /\ procs' = [procs EXCEPT ![i] = Return(@, lastID)]
    /\ UNCHANGED <<now, rows, lastID, op>>
    /\ UNCHANGED <<formatVars, limitVars, handlerVars, parserVars, taskVars>>

NextConcurrent == TickConcurrent \/ StepPrepare \/ StepExec \/ StepReturn

SpecConcurrent == InitConcurrent /\ [][NextConcurrent]_vars

----------------------------------------------------------------------------
(* /add messages handled one after another *)

\* the largest number of tasks the handled messages add
MaxAdded == 2

\* the senders: none, a user, and an id that is not positive
Senders == {0, 7, -3}

\* the texts: none, a blank one, the command alone, a description, a
\* description with a deadline, one with a date that is no date, a lone
\* quote, and a description one longer than ValidateDescription allows
HandlerTexts ==
    {<<>>,
     <<" ">>,
     AddCmd,
     AddCmd \o <<" ", "a">>,
     AddCmd \o <<" ", "a", " ">> \o Keyword \o <<" ">> \o DateText1,
     AddCmd \o <<" ", "a", " ">> \o Keyword \o <<"x">>,
     AddCmd \o <<" ", "\"">>,
     AddCmd \o <<" ">> \o Repeat("x", MaxDescriptionLen + 1)}


InitHandler ==
    /\ now = StoreStart
    /\ rows = <<>>
    /\ lastID = 0
    /\ op = NotCalled
    /\ message = NoMessage
    /\ outbox = <<>>
    /\ addCalls = <<>>
    /\ IdleDate /\ IdleAdd /\ IdleSplit /\ IdleValidate /\ IdleOverdue
    /\ IdleFormat /\ IdleLimit /\ IdleProcs

\* handleAdd on one message, while fewer than MaxAdded tasks have been added
HandleAdd ==
    /\ lastID < MaxAdded
    /\ \E t \in HandlerTexts :
        \E checked \in {Checked(t)}, sender \in Senders, dbOK \in BOOLEAN, sendOK \in BOOLEAN :
            LET m == Message(sender, t, dbOK, sendOK)
                h == handler(m, checked, rows, lastID, now)
            IN  /\ message' = m
                /\ outbox' = safeHandle(m, h)
                /\ addCalls' = h.calls
                /\ rows' = h.rows
                /\ lastID' = h.lastID
    /\ UNCHANGED <<now, op, formatVars, limitVars, procs, parserVars, taskVars>>

NextHandler == HandleAdd

SpecHandler == InitHandler /\ [][NextHandler]_vars

----------------------------------------------------------------------------
(* Claims about SplitCommandArgs, checked under SpecSplit *)

\* the quote character a span is open with after the first i characters of
\* s ("" when none is)
RECURSIVE OpenQuote(_, _)
OpenQuote(s, i) ==
    IF i = 0 THEN ""
    ELSE LET before == OpenQuote(s, i - 1)
         IN  IF before = "" THEN (IF s[i] \in {"\"", "'"} THEN s[i] ELSE "")
             ELSE IF s[i] = before THEN "" ELSE before

\* what character i of s is: a separator (space or tab outside quotes), a
\* delimiter (a quote that opens or closes a span) or content
Role(s, i) ==
    LET before == OpenQuote(s, i - 1)
    IN  IF before = "" /\ s[i] \in {" ", "\t"} THEN "separator"
        ELSE IF before # OpenQuote(s, i) THEN "delimiter"
        ELSE "content"

\* the elements of the set of positions P in increasing order
Sorted(P) ==
    [k \in 1..Cardinality(P) |-> CHOOSE i \in P : Cardinality({j \in P : j < i}) = k - 1]

\* the content characters of positions a..e of s, in order
ContentOf(s, a, e) ==
    LET idx == Sorted({i \in a..e : Role(s, i) = "content"})
    IN  [k \in DOMAIN idx |-> s[idx[k]]]

\* where a maximal run without separators starts, and where the run that
\* starts at a ends
RunStarts(s) ==
    {i \in 1..Len(s) : Role(s, i) # "separator" /\ (i = 1 \/ Role(s, i - 1) = "separator")}

RunStop(s, a) ==
    CHOOSE e \in a..Len(s) :
        /\ \A k \in a..e : Role(s, k) # "separator"
        /\ e = Len(s) \/ Role(s, e + 1) = "separator"

\* the arguments the text denotes: the content of each run between
\* separators, for the runs that have content
ExpectedArgs(s) ==
    LET starts == Sorted({a \in RunStarts(s) : ContentOf(s, a, RunStop(s, a)) # <<>>})
    IN  [k \in DOMAIN starts |-> ContentOf(s, starts[k], RunStop(s, starts[k]))]

\* C9: SplitCommandArgs splits on the runs of space and tab outside quotes:
\* a quoted span, opened by " or ', is kept literally, spaces included, as
\* part of one argument; the delimiting quotes are not in the output; an
\* empty input or one of spaces and tabs only gives the empty sequence;
\* arg1 "quoted arg" arg3 gives [arg1, quoted arg, arg3].
C9_SplitsOutsideQuotes ==
    splitRes.called =>
        /\ splitRes.args = ExpectedArgs(splitText)
        /\ (\A i \in DOMAIN splitText : splitText[i] \in {" ", "\t"}) => splitRes.args = <<>>
        /\ splitText = SplitExample =>
                splitRes.args = << <<"a", "r", "g", "1">>,
                                   <<"q", "u", "o", "t", "e", "d", " ", "a", "r", "g">>,
                                   <<"a", "r", "g", "3">> >>

\* C9 witness: the example was split into three arguments, the quoted one
\* with its space and without its quotes
C9_Witness ==
    /\ splitRes.called /\ splitText = SplitExample
    /\ Len(splitRes.args) = 3
    /\ splitRes.args[2] = <<"q", "u", "o", "t", "e", "d", " ", "a", "r", "g">>

\* the two quote characters
QuoteChars == {"\"", "'"}

\* the position of the first quote character of t (0 when t has none): the
\* text before it is outside quotes, so it opens a quoted span
FirstQuote(t) ==
    IF \A i \in DOMAIN t : t[i] \notin QuoteChars THEN 0
    ELSE CHOOSE i \in DOMAIN t : t[i] \in QuoteChars /\ \A j \in 1..(i - 1) : t[j] \notin QuoteChars

\* the position of the next t[k] after position k (0 when there is none)
NextSame(t, k) ==
    IF \A i \in (k + 1)..Len(t) : t[i] # t[k] THEN 0
    ELSE CHOOSE i \in (k + 1)..Len(t) : t[i] = t[k] /\ \A j \in (k + 1)..(i - 1) : t[j] # t[k]

\* C26: in SplitCommandArgs a quoted span is closed only by the quote
\* character that opened it: the text between the first quote character
\* and the next same one, the other quote character and spaces in it
\* included, is kept whole at the end of one argument when a space or the
\* end of the input follows; when no same quote character follows, the
\* rest of the input ends the last argument; the call returns, and no
\* argument is the empty string.
C26_QuoteClosedBySameChar ==
    splitRes.called =>
        LET t == splitText
            k == FirstQuote(t)
            m == NextSame(t, k)
            args == splitRes.args
        IN  /\ \A i \in DOMAIN args : args[i] # <<>>
            /\ (k > 0 /\ m > k + 1 /\ (m = Len(t) \/ t[m + 1] \in {" ", "\t"})) =>
                    \E i \in DOMAIN args : HasSuffix(args[i], SubSeq(t, k + 1, m - 1))
            /\ (k > 0 /\ m = 0 /\ k < Len(t)) =>
                    /\ args # <<>>
                    /\ HasSuffix(args[Len(args)], SubSeq(t, k + 1, Len(t)))

\* C26 witness: the unclosed 'a "a gives the one argument a "a
C26_Witness ==
    /\ splitRes.called
    /\ Len(splitText) = 5 /\ splitText[1] = "'"
    /\ splitRes.args = << <<"a", " ", "\"", "a">> >>

\* C26 witness, the closed span: "a'a" gives the one argument a'a
C26_WitnessClosed ==
    /\ splitRes.called
    /\ Len(splitText) = 5 /\ splitText[1] = "\"" /\ splitText[5] = "\""
    /\ splitRes.args = << <<"a", "'", "a">> >>

----------------------------------------------------------------------------
(* Claims about Task.Validate, checked under SpecValidate *)

\* C10: Task.Validate returns the first failing reason in the order:
\* userID <= 0 (InvalidUser), an empty or whitespace-only description
\* (EmptyDescription), an over-long description (DescriptionTooLong), a
\* non-empty status outside active, done, postponed (InvalidStatus), and nil
\* when none fails; an empty status is accepted; of several violated rules
\* only the earliest is reported.
C10_ValidationOrder ==
    validateRes.called =>
        LET invalidUser == task.UserID <= 0
            blank       == \A i \in DOMAIN task.OriginalDescription :
                                IsSpace(task.OriginalDescription[i])
            tooLong     == ByteLen(task.OriginalDescription) > MaxDescriptionLen
            badStatus   == task.Status # "" /\ task.Status \notin {"active", "done", "postponed"}
        IN  /\ invalidUser => validateRes.err.kind = "user_id must be a positive integer"
            /\ (~invalidUser /\ blank) =>
                    validateRes.err.kind = "original_description cannot be empty"
            /\ (~invalidUser /\ ~blank /\ tooLong) =>
                    validateRes.err.kind = "original_description cannot exceed 1000 characters"
            /\ (~invalidUser /\ ~blank /\ ~tooLong /\ badStatus) =>
                    validateRes.err.kind = "status must be one of: active, done, postponed"
            /\ (~invalidUser /\ ~blank /\ ~tooLong /\ ~badStatus) => validateRes.err = NoError
            /\ (~invalidUser /\ ~blank /\ ~tooLong /\ task.Status = "") =>
                    validateRes.err = NoError

\* C10 witness: a task with a too long description and an invalid status was
\* rejected for the description
C10_Witness ==
    /\ validateRes.called
    /\ task.UserID > 0
    /\ ByteLen(task.OriginalDescription) > MaxDescriptionLen
    /\ task.Status = "invalid"
    /\ validateRes.err.kind = "original_description cannot exceed 1000 characters"

\* the two DescriptionTooLong errors
TooLongKinds ==
    {"original_description cannot exceed 1000 characters",
     "description too long (maximum 1000 characters)"}

\* C11: the description bound is 1000 characters, whatever the alphabet: no
\* description of 1000 characters or fewer is rejected as too long by
\* Task.Validate or by ValidateDescription, a description of exactly 1000
\* characters passes both, and one of 1001 characters or more (not counting
\* the surrounding whitespace ValidateDescription trims) fails with
\* DescriptionTooLong.
C11_BoundIsCharacters ==
    LET d == task.OriginalDescription
    IN  /\ validateRes.called =>
            /\ Len(d) <= 1000 => validateRes.err.kind \notin TooLongKinds
            /\ (Len(d) = 1000 /\ TrimSpace(d) # <<>> /\ task.UserID > 0
                    /\ task.Status \in {"", "active", "done", "postponed"}) =>
                    validateRes.err = NoError
            /\ (Len(d) >= 1001 /\ TrimSpace(d) # <<>> /\ task.UserID > 0) =>
                    validateRes.err.kind \in TooLongKinds
        /\ descriptionRes.called =>
            /\ Len(d) <= 1000 => descriptionRes.err.kind \notin TooLongKinds
            /\ (Len(d) = 1000 /\ TrimSpace(d) # <<>>) => descriptionRes.err = NoError
            /\ Len(TrimSpace(d)) >= 1001 => descriptionRes.err.kind \in TooLongKinds

----------------------------------------------------------------------------
(* Claims about Task.IsOverdue, checked under SpecOverdue *)

\* C12: every IsOverdue call, made at time now, returns true exactly when the
\* task has a deadline, its status is not done and now is after the deadline;
\* the result depends on the task's fields and the time of the call only (a
\* task without a deadline or a done task is never overdue, and the call
\* leaves the task as it was).
C12_OverdueIsDerived ==
    [][\A i \in DOMAIN overdueLog' :
            /\ overdueLog'[i].overdue =
                    (/\ task.Deadline # ZeroTime
                     /\ task.Status # "done"
                     /\ TimeKey(task.Deadline) # TimeKey(overdueLog'[i].at)
                     /\ ~LexLess(TimeKey(overdueLog'[i].at), TimeKey(task.Deadline)))
            /\ task' = task]_vars

\* C12 witness: the same task was not overdue at one call and overdue at a
\* later one
C12_Witness ==
    /\ Len(overdueLog) = 2
    /\ ~overdueLog[1].overdue
    /\ overdueLog[2].overdue
    /\ task.Status # "done"

----------------------------------------------------------------------------
(* Claims about the repository, checked under SpecStore *)

\* the step is a call of the repository of one of the kinds (the clock
\* stands still in a call)
Calls(kinds) == now' = now /\ op'.called /\ op'.kind \in kinds

\* a time as the store keeps it: without the fraction of a second
ToSeconds(t) == [t EXCEPT !.nsec = 0]

\* C13: AddTask on a task that passes Validate returns nil, persists exactly
\* one new row (the other rows stay) and gives the task the positive id of
\* that row; the row and the task carry the defaults: status active when it
\* was empty and the given status otherwise, createdAt now when it was unset
\* and the given createdAt otherwise, updatedAt now.
C13_AddPersistsWithDefaults ==
    [][(Calls({"AddTask"}) /\ Validate(op'.arg) = NoError) =>
            LET a == op'.arg
                t == op'.task
            IN  /\ op'.err = NoRepoError
                /\ t.ID > 0
                /\ t.ID \notin DOMAIN rows
                /\ DOMAIN rows' = DOMAIN rows \cup {t.ID}
                /\ \A i \in DOMAIN rows : rows'[i] = rows[i]
                /\ t.Status = (IF a.Status = "" THEN "active" ELSE a.Status)
                /\ t.CreatedAt = (IF a.CreatedAt = ZeroTime THEN now ELSE a.CreatedAt)
                /\ t.UpdatedAt = now
                /\ t.UserID = a.UserID /\ t.Deadline = a.Deadline
                /\ t.OriginalDescription = a.OriginalDescription
                /\ t.LLMProcessedDesc = a.LLMProcessedDesc
                /\ rows'[t.ID].id = t.ID
                /\ rows'[t.ID].user_id = t.UserID
                /\ rows'[t.ID].status = t.Status
                /\ rows'[t.ID].original_description = t.OriginalDescription
                /\ rows'[t.ID].llm_processed_desc = t.LLMProcessedDesc
                /\ rows'[t.ID].created_at = FormatRFC3339(t.CreatedAt)
                /\ rows'[t.ID].updated_at = FormatRFC3339(t.UpdatedAt)]_vars

\* C13 witness: a task with an empty status and no creation time was added:
\* its row is there, active
C13_Witness ==
    /\ op.called /\ op.kind = "AddTask" /\ op.err = NoRepoError
    /\ op.arg.Status = "" /\ op.arg.CreatedAt = ZeroTime
    /\ op.task.ID \in DOMAIN rows
    /\ rows[op.task.ID].status = "active"

\* C14: AddTask or UpdateTask on a task that fails Validate returns a
\* validation error that wraps the validator's reason, and leaves the rows,
\* the id sequence and the caller's task as they were.
C14_InvalidTaskChangesNothing ==
    [][(Calls({"AddTask", "UpdateTask"}) /\ Validate(op'.arg) # NoError) =>
            /\ op'.err.kind = "task validation failed"
            /\ op'.err.cause = Validate(op'.arg).kind
            /\ rows' = rows
            /\ lastID' = lastID
            /\ op'.task = op'.arg]_vars

\* C14 witness: UpdateTask was called with an invalid task whose id is the
\* id of a stored row, and returned a validation error
C14_Witness ==
    /\ op.called /\ op.kind = "UpdateTask"
    /\ op.err.kind = "task validation failed"
    /\ op.arg.ID \in DOMAIN rows

\* C15: a GetTask of the id AddTask has just assigned returns a task equal to
\* the added one in id, userID, original and processed description and
\* status, and in deadline and timestamps to the second; an absent deadline
\* comes back absent and a present one present.
C15_AddThenGetRoundTrip ==
    [][(/\ op.called /\ op.kind = "AddTask" /\ op.err = NoRepoError
        /\ Calls({"GetTask"}) /\ op'.id = op.task.ID) =>
            LET added == op.task
                got   == op'.task
            IN  /\ op'.err = NoRepoError
                /\ got.ID = added.ID
                /\ got.UserID = added.UserID
                /\ got.OriginalDescription = added.OriginalDescription
                /\ got.LLMProcessedDesc = added.LLMProcessedDesc
                /\ got.Status = added.Status
                /\ got.Deadline = ToSeconds(added.Deadline)
                /\ (got.Deadline = ZeroTime) = (added.Deadline = ZeroTime)
                /\ got.CreatedAt = ToSeconds(added.CreatedAt)
                /\ got.UpdatedAt = ToSeconds(added.UpdatedAt)]_vars

\* C15 witness: GetTask returned a task with the deadline, to the second,
\* that it was added with
C15_Witness ==
    /\ op.called /\ op.kind = "GetTask" /\ op.err = NoRepoError
    /\ op.task.Deadline = ToSeconds(Deadline2)
    /\ rows[op.id].updated_at = rows[op.id].created_at

\* C16: GetTask(id), DeleteTask(id) and UpdateTask of a valid task with that
\* id return NotFound exactly when no row has the id, and a call that
\* returns NotFound leaves the rows and the id sequence as they were.
C16_NotFoundIffNoRow ==
    [][Calls({"GetTask", "UpdateTask", "DeleteTask"}) =>
            LET id == IF op'.kind = "UpdateTask" THEN op'.arg.ID ELSE op'.id
            IN  /\ (op'.kind = "UpdateTask" => Validate(op'.arg) = NoError) =>
                        ((op'.err.kind = "task not found") = (id \notin DOMAIN rows))
                /\ op'.err.kind = "task not found" =>
                        (rows' = rows /\ lastID' = lastID /\ op'.err.id = id)]_vars

\* C16 witness: UpdateTask of a valid task returned NotFound while other
\* rows were stored
C16_Witness ==
    /\ op.called /\ op.kind = "UpdateTask"
    /\ op.err.kind = "task not found"
    /\ op.arg.ID \notin DOMAIN rows
    /\ rows # <<>>

\* C17: an id that has been assigned and whose row is gone never has a row
\* again, and GetTask, UpdateTask (of a valid task) and DeleteTask on it
\* return NotFound; every successful AddTask assigns an id larger than every
\* id assigned before, so no id is assigned twice.
C17_DeletionIsFinal ==
    [][/\ DOMAIN rows \subseteq 1..lastID
       /\ \A id \in 1..lastID : id \notin DOMAIN rows => id \notin DOMAIN rows'
       /\ (Calls({"AddTask"}) /\ op'.err = NoRepoError) =>
                (op'.task.ID > lastID /\ lastID' = op'.task.ID)
       /\ (Calls({"GetTask", "DeleteTask"}) /\ op'.id \in (1..lastID) \ DOMAIN rows) =>
                op'.err.kind = "task not found"
       /\ (Calls({"UpdateTask"}) /\ op'.arg.ID \in (1..lastID) \ DOMAIN rows
                /\ Validate(op'.arg) = NoError) =>
                op'.err.kind = "task not found"]_vars

\* C17 witness: task 1 was deleted, a task was added after that and got id 2,
\* and GetTask(1) returned NotFound
C17_Witness ==
    /\ lastID = 2 /\ DOMAIN rows = {2}
    /\ rows[2].created_at = FormatRFC3339(StoreStart)
    /\ op.called /\ op.kind = "GetTask" /\ op.id = 1
    /\ op.err.kind = "task not found"

\* C18: UpdateTask adds and removes no row and changes no row but the one
\* with the task's id; in that row id, user_id and created_at stay, whatever
\* userID and createdAt the passed task carries; when it succeeds the row
\* holds the task's descriptions, deadline and status, and updated_at is the
\* time of the update.
C18_UpdateFrame ==
    [][Calls({"UpdateTask"}) =>
            LET t == op'.arg
            IN  /\ DOMAIN rows' = DOMAIN rows
                /\ lastID' = lastID
                /\ \A i \in DOMAIN rows :
                        /\ i # t.ID => rows'[i] = rows[i]
                        /\ rows'[i].id = rows[i].id
                        /\ rows'[i].user_id = rows[i].user_id
                        /\ rows'[i].created_at = rows[i].created_at
                /\ op'.err = NoRepoError =>
                        /\ t.ID \in DOMAIN rows
                        /\ rows'[t.ID].original_description = t.OriginalDescription
                        /\ rows'[t.ID].llm_processed_desc = t.LLMProcessedDesc
                        /\ rows'[t.ID].status = t.Status
                        /\ rows'[t.ID].deadline.Valid = (t.Deadline # ZeroTime)
                        /\ rows'[t.ID].deadline.Valid =>
                                rows'[t.ID].deadline.String = FormatRFC3339(t.Deadline)
                        /\ rows'[t.ID].updated_at = FormatRFC3339(now)
                /\ op'.err # NoRepoError => rows' = rows]_vars

\* C18 witness: a row of user 1 was updated, at a later time than it was
\* created, with a task that carries user 2 and a creation time of its own,
\* while another row was stored
C18_Witness ==
    /\ op.called /\ op.kind = "UpdateTask" /\ op.err = NoRepoError
    /\ op.arg.UserID = 2 /\ op.arg.CreatedAt = PresetCreated
    /\ rows[op.arg.ID].user_id = 1
    /\ rows[op.arg.ID].created_at = FormatRFC3339(StoreStart)
    /\ rows[op.arg.ID].updated_at # rows[op.arg.ID].created_at
    /\ Cardinality(DOMAIN rows) = 2

\* C19: every stored row has a status among active, done, postponed, a
\* positive user_id and a description that is not blank and not longer than
\* the bound; an UpdateTask with an empty status changes no row.
C19_StoredTasksValid ==
    /\ \A i \in DOMAIN rows :
            /\ rows[i].status \in {"active", "done", "postponed"}
            /\ rows[i].user_id > 0
            /\ \E k \in DOMAIN rows[i].original_description :
                    ~IsSpace(rows[i].original_description[k])
            /\ Len(rows[i].original_description) <= 1000
    /\ (op.called /\ op.kind = "UpdateTask" /\ op.arg.Status = "") => op.err # NoRepoError

\* C19 witness: UpdateTask with an empty status was called on a stored row
C19_Witness ==
    /\ op.called /\ op.kind = "UpdateTask"
    /\ op.arg.Status = "" /\ op.arg.UserID > 0
    /\ op.arg.ID \in DOMAIN rows
    /\ op.err.kind = "failed to update task"

----------------------------------------------------------------------------
(* Claims about the list queries, checked under SpecList *)

\* the ids of the tasks of a slice
TaskIDs(tasks) == {tasks[i].ID : i \in DOMAIN tasks}

\* the time a returned active task is ordered by
DeadlineOrCreated(t) == IF t.Deadline # ZeroTime THEN t.Deadline ELSE t.CreatedAt

\* C20: GetActiveTasks(userID) returns, once each, exactly the stored tasks
\* of that user with status active, in ascending order of the single key
\* "deadline if present, else createdAt": no task of the slice has a smaller
\* key than a task before it, whether the tasks have deadlines or not.
C20_ActiveOrderedByDeadlineOrCreated ==
    (op.called /\ op.kind = "GetActiveTasks") =>
        /\ op.err = NoRepoError
        /\ TaskIDs(op.tasks) =
                {i \in DOMAIN rows : rows[i].user_id = op.id /\ rows[i].status = "active"}
        /\ Len(op.tasks) = Cardinality(TaskIDs(op.tasks))
        /\ \A i \in DOMAIN op.tasks :
                /\ op.tasks[i].UserID = op.id
                /\ op.tasks[i].Status = "active"
                /\ (op.tasks[i].Deadline # ZeroTime) = rows[op.tasks[i].ID].deadline.Valid
        /\ \A i, j \in DOMAIN op.tasks :
                i < j => ~After(DeadlineOrCreated(op.tasks[i]), DeadlineOrCreated(op.tasks[j]))

\* C20 witness: the task with the earlier deadline, added last, then the
\* task without a deadline, then the task with the later deadline, added first
C20_Witness ==
    /\ op.called /\ op.kind = "GetActiveTasks"
    /\ Len(op.tasks) = 3
    /\ op.tasks[1].Deadline = Deadline1 /\ op.tasks[1].ID = 3
    /\ op.tasks[2].Deadline = ZeroTime
    /\ op.tasks[3].Deadline = Deadline3 /\ op.tasks[3].ID = 1

\* the tasks of the rows with the ids, each as the scan reads it
Scanned(tasks, ids) ==
    /\ TaskIDs(tasks) = ids
    /\ Len(tasks) = Cardinality(ids)
    /\ \A i \in DOMAIN tasks : tasks[i] = ScanTask(rows[tasks[i].ID])

NewestFirst(tasks) ==
    \A i, j \in DOMAIN tasks : i < j => ~After(tasks[j].CreatedAt, tasks[i].CreatedAt)

\* C21: GetTasksByUser(userID) returns, once each, exactly the stored tasks
\* of that user, no task created later than a task before it;
\* GetTasksByStatus(userID, status) returns exactly those of them with the
\* status, in the same order, and for a status no task of the user has it
\* returns the empty slice and no error.
C21_ByUserAndByStatusNewestFirst ==
    /\ (op.called /\ op.kind = "GetTasksByUser") =>
            /\ op.err = NoRepoError
            /\ Scanned(op.tasks, {i \in DOMAIN rows : rows[i].user_id = op.id})
            /\ NewestFirst(op.tasks)
    /\ (op.called /\ op.kind = "GetTasksByStatus") =>
            /\ op.err = NoRepoError
            /\ Scanned(op.tasks, {i \in DOMAIN rows : /\ rows[i].user_id = op.id
                                                      /\ rows[i].status = op.status})
            /\ NewestFirst(op.tasks)
            /\ (\A i \in DOMAIN rows : rows[i].status # op.status) => op.tasks = <<>>

\* C21 witness: two tasks of the user returned, the last added first and
\* created after the first added, while a task of another user is stored
C21_Witness ==
    /\ op.called /\ op.kind = "GetTasksByUser"
    /\ Len(op.tasks) = 2
    /\ op.tasks[1].ID = 3 /\ op.tasks[2].ID = 1
    /\ After(op.tasks[1].CreatedAt, op.tasks[2].CreatedAt)
    /\ rows[2].user_id # op.id

\* C21 witness, second part: a status no stored task has gives the empty slice
C21_WitnessNoSuchStatus ==
    /\ op.called /\ op.kind = "GetTasksByStatus"
    /\ op.status = "non-existing" /\ op.tasks = <<>> /\ op.err = NoRepoError
    /\ \E i \in DOMAIN rows : rows[i].user_id = op.id

\* the deadline of a stored row, as a time
RowDeadline(row) == ParseRFC3339(row.deadline.String)

\* C22: GetOverdueTasks(userID), called at time now, returns exactly the
\* stored tasks of the user with status active and a deadline strictly
\* before now, the earliest deadline first; it returns no done or postponed
\* task, no active task whose deadline is not before now and no task
\* without a deadline.
C22_OverdueExactlyPastActive ==
    (op.called /\ op.kind = "GetOverdueTasks") =>
        /\ op.err = NoRepoError
        /\ Scanned(op.tasks, {i \in DOMAIN rows : /\ rows[i].user_id = op.id
                                                  /\ rows[i].status = "active"
                                                  /\ rows[i].deadline.Valid
                                                  /\ After(op.at, RowDeadline(rows[i]))})
        /\ \A i, j \in DOMAIN op.tasks :
                i < j => ~After(op.tasks[i].Deadline, op.tasks[j].Deadline)

\* C27: for every stored task t of user u, t is among the tasks
\* GetOverdueTasks(u) returns exactly when IsOverdue holds of t at the time
\* of the call, and both hold exactly when t is active with a deadline
\* that has passed; a postponed task with a past deadline is overdue for
\* neither.
C27_IsOverdueAgreesWithQuery ==
    (op.called /\ op.kind = "GetOverdueTasks") =>
        \A i \in DOMAIN rows :
            rows[i].user_id = op.id =>
                LET t == ScanTask(rows[i])
                    passed == /\ t.Status = "active"
                              /\ t.Deadline # ZeroTime
                              /\ After(op.at, t.Deadline)
                IN  /\ (t.ID \in TaskIDs(op.tasks)) <=> IsOverdue(t, op.at)
                    /\ IsOverdue(t, op.at) <=> passed

\* the same without the postponed tasks and without the second of the deadline
AgreeUnlessPostponedOrSameSecond ==
    (op.called /\ op.kind = "GetOverdueTasks") =>
        \A i \in DOMAIN rows :
            (/\ rows[i].user_id = op.id
             /\ rows[i].status # "postponed"
             /\ rows[i].deadline.Valid => rows[i].deadline.String # FormatRFC3339(op.at)) =>
                ((ScanTask(rows[i]).ID \in TaskIDs(op.tasks))
                    <=> IsOverdue(ScanTask(rows[i]), op.at))

\* the sets of ids of the slices a query can give: one set, whatever the order
IDsOf(slices) == {TaskIDs(tasks) : tasks \in slices}

\* C29: in every state of the store and the clock (each is met with no
\* list query pending, a query changing neither) and for every user,
\* GetActiveTasks and GetTasksByStatus(active) give the same tasks; the
\* tasks GetTasksByStatus gives for active, done and postponed are pairwise
\* disjoint and together are the tasks GetTasksByUser gives; and every task
\* GetOverdueTasks gives is one GetActiveTasks gives.
C29_StatusListsPartitionUserTasks ==
    NoListPending => \A u \in ListUsers :
        LET byActive == IDsOf(GetTasksByStatus(rows, u, "active"))
            byDone == IDsOf(GetTasksByStatus(rows, u, "done"))
            byPostponed == IDsOf(GetTasksByStatus(rows, u, "postponed"))
            byUser == IDsOf(GetTasksByUser(rows, u))
            overdue == IDsOf(GetOverdueTasks(rows, u, now))
            active == UNION IDsOf(GetActiveTasks(rows, u))
        IN  /\ byActive = {active}
            /\ Cardinality(byDone) = 1 /\ Cardinality(byPostponed) = 1
            /\ Cardinality(byUser) = 1 /\ Cardinality(overdue) = 1
            /\ active \cap UNION byDone = {}
            /\ active \cap UNION byPostponed = {}
            /\ UNION byDone \cap UNION byPostponed = {}
            /\ active \cup UNION byDone \cup UNION byPostponed = UNION byUser
            /\ UNION overdue \subseteq active

\* C29 witness: user 1 has an active, a done and a postponed task, each
\* with a past deadline, and the active one is overdue
C29_Witness ==
    /\ NoListPending
    /\ {rows[i].status : i \in DOMAIN rows} = {"active", "done", "postponed"}
    /\ \A i \in DOMAIN rows : rows[i].user_id = 1
    /\ \E tasks \in GetOverdueTasks(rows, 1, now) : Len(tasks) = 1

----------------------------------------------------------------------------
(* Claims about FormatTaskItem, checked under SpecFormat *)

\* strings.Contains
Contains(s, p) == \E i \in 0..(Len(s) - Len(p)) : SubSeq(s, i + 1, i + Len(p)) = p

\* the text has a second line, and it is the deadline line
HasDeadlineLine(t) == Contains(t, <<"\n">>) /\ Contains(t, DeadlineLabel)

\* C23: the item FormatTaskItem returns has a deadline line exactly when the
\* task has a deadline; the text carries the overdue mark exactly when the
\* task has a deadline, is overdue and its status is active; the item of a
\* done or postponed task carries neither the mark nor the red circle.
C23_OverdueMarkOnlyOnActive ==
    itemRes.called =>
        /\ HasDeadlineLine(itemRes.text) <=> item.task.HasDeadline
        /\ Contains(itemRes.text, <<"U2757">>) <=>
                (item.task.HasDeadline /\ item.task.IsOverdue /\ item.task.Status = "active")
        /\ item.task.Status \in {"done", "postponed"} =>
                /\ ~Contains(itemRes.text, <<"U2757">>)
                /\ ~Contains(itemRes.text, <<"U1F534">>)

\* C23 witness: a postponed task, overdue with a past deadline, formatted
\* with its deadline line and without the mark
C23_Witness ==
    /\ itemRes.called
    /\ item.task.Status = "postponed" /\ item.task.IsOverdue
    /\ item.task.Deadline = Deadline1 /\ item.task.HasDeadline
    /\ HasSuffix(itemRes.text, <<":", " ", "0", "1", ".", "0", "1", ".", "2", "0", "2", "5">>)

----------------------------------------------------------------------------
(* Claims about APILimit, checked under SpecLimit *)

\* C24: CanMakeRequest answers true exactly when the user is premium, or
\* the time of the call is after resetDate, or requestsCount is below 10.
C24_CanMakeRequestExactly ==
    (canRes.called /\ canRes.kind \in {"CanMakeRequest", "Request"}) =>
        (canRes.ok <=> \/ canRes.limit.IsPremium
                       \/ After(canRes.at, canRes.limit.ResetDate)
                       \/ canRes.limit.RequestsCount < 10)

\* C24 witness: a regular user with 10 requests counted asks after resetDate
\* and may make a request
C24_Witness ==
    /\ canRes.called /\ canRes.kind = "CanMakeRequest"
    /\ ~canRes.limit.IsPremium /\ canRes.limit.RequestsCount = 10
    /\ After(canRes.at, canRes.limit.ResetDate)
    /\ canRes.ok

\* after Reset the count is 0, resetDate is the first instant of the month
\* after the call's, later than the call, and ShouldReset answers false
ResetStartsPeriod ==
    (canRes.called /\ canRes.kind = "Reset") =>
        /\ limit.RequestsCount = 0
        /\ After(limit.ResetDate, canRes.at)
        /\ limit.ResetDate =
                IF canRes.at.month = 12 THEN Time(canRes.at.year + 1, 1, 1, 0, 0, 0)
                ELSE Time(canRes.at.year, canRes.at.month + 1, 1, 0, 0, 0)
        /\ ~canRes.ok

\* a request made after resetDate is granted
GrantedPastResetDate ==
    (canRes.called /\ canRes.kind = "Request" /\ After(canRes.at, canRes.limit.ResetDate))
        => canRes.ok

\* C28: under the protocol "if CanMakeRequest then IncrementRequests" a
\* regular user is granted at most 10 requests in a period, the period
\* that begins when time passes resetDate included: at most 10 up to
\* resetDate and at most 10 past it; a request made after resetDate is
\* granted; and Reset leaves the count 0, resetDate the first day of the
\* next month (January of the next year after December), later than the
\* call, and ShouldReset false.
C28_TenRequestsPerPeriod ==
    /\ ~limit.IsPremium => (granted.upTo <= 10 /\ granted.past <= 10)
    /\ GrantedPastResetDate
    /\ ResetStartsPeriod

----------------------------------------------------------------------------
(* Claims about handleAdd, checked under SpecHandler *)

\* the replies that tell of a failure
ErrorTexts ==
    {"could not determine the user", "empty command", "error in the command", "",
     "could not save the task, try later", "internal error, try later"}

\* C30: a message handled by handleAdd whose Send succeeds gets exactly one
\* reply, and AddTask is called at most once; AddTask is called only for a
\* sender id that is not 0 and a text ParseAddCommand and
\* ValidateDescription accept; the reply is the success reply exactly when
\* AddTask was called and returned no error, and then the store has the one
\* new task; in every other case, a panic of the parser included, the store
\* is as it was and the one reply tells of the failure; and the reply to an
\* error of AddTask is one fixed text, whatever the error.
C30_OneReplyPerAdd ==
    [][message'.sendOK =>
        LET parsed == ParseAddCommand(message'.text)
            saved  == addCalls' # <<>> /\ addCalls'[1].err = NoRepoError
        IN  /\ Len(outbox') = 1 /\ outbox'[1].ok
            /\ Len(addCalls') <= 1
            /\ addCalls' # <<>> =>
                    /\ message'.sender # 0
                    /\ ~parsed.panicked /\ parsed.err = NoError
                    /\ ValidateDescription(parsed.input.Description) = NoError
                    /\ addCalls'[1].task.OriginalDescription = parsed.input.Description
            /\ (outbox'[1].reply.text = "task added") <=> saved
            /\ saved =>
                    /\ lastID' = lastID + 1
                    /\ DOMAIN rows' = DOMAIN rows \cup {lastID'}
                    /\ \A i \in DOMAIN rows : rows'[i] = rows[i]
                    /\ outbox'[1].reply.id = lastID'
            /\ ~saved =>
                    /\ rows' = rows /\ lastID' = lastID
                    /\ outbox'[1].reply.text \in ErrorTexts
            /\ (addCalls' # <<>> /\ ~saved) =>
                    outbox'[1].reply =
                        [text |-> "could not save the task, try later", err |-> "", id |-> 0,
                         description |-> <<>>, deadline |-> <<>>]
            /\ outbox'[1].reply.text = "internal error, try later" => parsed.panicked
    ]_vars

\* C30 witness: after a task was added, the database refuses the statement
\* of the next one: AddTask returned its error, one reply was sent, the
\* store holds the first task only
C30_Witness ==
    /\ message.sendOK /\ ~message.dbOK
    /\ addCalls # <<>> /\ addCalls[1].err.kind = "failed to insert task"
    /\ Len(outbox) = 1
    /\ DOMAIN rows = {1}

----------------------------------------------------------------------------
(* Claims about concurrent calls, checked under SpecConcurrent *)

\* a call made alone on rows r and sequence l, the clock at the time the
\* call read it
Alone(p, r, l) ==
    IF p.kind = "AddTask" THEN AddTask(r, l, p.arg, p.at)
    ELSE IF p.kind = "UpdateTask" THEN UpdateTask(r, l, p.arg, p.at)
    ELSE DeleteTask(r, l, p.arg.ID)

\* the calls made one after another in the order f, from the k-th on:
\* whether each returns what it returned and the store ends as it is
RECURSIVE SerialFrom(_, _, _, _)
SerialFrom(f, k, r, l) ==
    IF k > Len(f) THEN r = rows /\ l = lastID
    ELSE LET p == procs[f[k]]
             o == Alone(p, r, l)
         IN  /\ o.err = p.err
             /\ p.kind # "DeleteTask" /\ o.err = NoRepoError => o.task = p.task
             /\ SerialFrom(f, k + 1, o.rows, o.lastID)

AllDone == \A i \in DOMAIN procs : procs[i].pc = "done"

\* C25: when calls of AddTask, UpdateTask and DeleteTask that target
\* different ids run at the same time, each statement executed as a whole,
\* the store they leave and what each returned are those of the calls
\* made one after another in some order; and the tasks added by calls
\* that ran at the same time have different ids.
C25_SerialOrderExists ==
    AllDone =>
        /\ \E f \in Orders(DOMAIN procs) : SerialFrom(f, 1, ProcRows, 2)
        /\ \A i, j \in DOMAIN procs :
                (/\ i # j
                 /\ procs[i].kind = "AddTask" /\ procs[i].err = NoRepoError
                 /\ procs[j].kind = "AddTask" /\ procs[j].err = NoRepoError)
                    => procs[i].task.ID # procs[j].task.ID

\* C25 witness: two AddTask calls have run, the second inserted first: it
\* has the id 3, the first the id 4
C25_Witness ==
    /\ AllDone
    /\ procs[1].kind = "AddTask" /\ procs[1].task.ID = 4
    /\ procs[2].kind = "AddTask" /\ procs[2].task.ID = 3

====
